---- MODULE Spec2Model ----
(***************************************************************************)
(* Multi-agent ReAct workflow: an orchestrator loop delegating to operator *)
(* loops (math, weather, datetime) that call tools.                        *)
(*                                                                         *)
(* Three state machines share this module:                                 *)
(*   Spec            one run of a think-act-observe loop (the langchain    *)
(*                   AgentExecutor as configured by the agent factories),  *)
(*                   with the tools of the operator it belongs to;         *)
(*   SpecDelegation  one call of a delegation bridge (math_operator,       *)
(*                   weather_operator, datetime_operator,                  *)
(*                   execute_operator_with_tracing);                       *)
(*   SpecInvoke      concurrent POST /invoke requests of main.py.          *)
(***************************************************************************)
EXTENDS Integers, Sequences, FiniteSets, TLC

VARIABLES
    \* ---- one loop run (AgentExecutor._call)
    kind,            \* which executor: "orchestrator", "math", "weather", "datetime"
    pc,              \* "llm": about to query the completion service; "act": output received; "done"
    iterations,      \* the loop's iteration counter
    n_steps,         \* len(intermediate_steps)
    last_step,       \* intermediate_steps[-1] as [tool, input, obs, log], or NoStep
    llm_output,      \* the completion text of the current turn (token sequence)
    final_output,    \* result["output"] once the run has returned
    terminated,      \* "running", "final_answer", "max_iterations", "max_time", "raised"
    llm_calls,       \* completion-service calls made by this run
    tool_calls,      \* invocations of a registered tool made by this run
    all_malformed,   \* every completion so far was a parse error
    budget_elapsed,  \* the wall-clock budget (max_execution_time) of the run has elapsed
    \* ---- one delegation call (operators/*_operator_agent.py, shared/operator_executor.py)
    d_operator,      \* which bridge is called
    d_pc,            \* position in the bridge
    d_runs,          \* outputs of the operator runs that returned, in order
    d_started,       \* number of agent.invoke calls started
    d_failures,      \* set of failures that occurred during the call
    d_result,        \* what the bridge returned: [raised, value]
    d_call,          \* ordinal of this delegation call
    d_query,         \* the query string the bridge was called with
    d_executor,      \* the operator executor the bridge holds (0: none built yet)
    d_transcripts,   \* the operator runs so far: [call, executor, input, steps]
    \* ---- POST /invoke (main.py)
    app_state,       \* [agent_executor, langfuse_client]
    current_trace,   \* tools.factory._current_trace
    step_counter,    \* ProperLoggingCallback.step_counter of the one executor
    r_pc,            \* per request: position in invoke_agent
    r_trace,         \* per request: its trace (or None)
    r_actions,       \* per request: agent actions taken by its run
    r_logged,        \* per request: the "Action #k" number logged for its latest action
    r_failures,      \* per request: failures that occurred while serving it
    r_loaded,        \* per request: the counter value its "+= 1" has read
    r_run,           \* per request: "none", "uninitialised", "not_started", "running",
                     \* "succeeded", "raised": what became of its orchestrator run
    r_status,        \* per request: HTTP status of the response (0: none yet)
    r_parent,        \* per request: the parent trace a traced tool of its run last read
    r_session_in,    \* per request: session_id of the request body (None: absent)
    r_response,      \* per request: the body of the response
    info_response,   \* the latest response of GET /agent/info
    \* ---- one call of the calculate tool (tools/operators/math_operator.py)
    c_pc,            \* "idle", "called", "returned"
    c_input,         \* [json, text]: the tokens of the text, wrapped as JSON or not
    c_expected,      \* the value of the expression by its syntax tree, if it has one
    c_result,        \* [message, value, called]: the string returned, functions called
    \* ---- one call of a tool function or of a helper module
    t_pc,            \* "idle", "called", "returned"
    t_call,          \* the function called and its arguments
    t_state,         \* what the module keeps between calls, and the world it reads
    t_result         \* what the call returned, with the requests it sent

loopVars == <<kind, pc, iterations, n_steps, last_step, llm_output, final_output,
              terminated, llm_calls, tool_calls, all_malformed, budget_elapsed>>
delegVars == <<d_operator, d_pc, d_runs, d_started, d_failures, d_result,
               d_call, d_query, d_executor, d_transcripts>>
invokeVars == <<app_state, current_trace, step_counter, r_pc, r_trace, r_actions,
                r_logged, r_failures, r_loaded, r_run, r_status, r_parent,
                r_session_in, r_response, info_response>>
calcVars == <<c_pc, c_input, c_expected, c_result>>
toolVars == <<t_pc, t_call, t_state, t_result>>
vars == <<loopVars, delegVars, invokeVars, calcVars, toolVars>>

None == "None"

(***************************************************************************)
(* Completion text.  A completion is a sequence of tokens: the three       *)
(* markers the ReAct output parser keys on, whitespace, and words.         *)
(***************************************************************************)
FA == "Final Answer:"
ACT == "Action:"
INP == "Action Input:"
SP == " "

\* Longest completion, in tokens.
MaxTextLen == 3

RECURSIVE SeqsUpTo(_, _)
SeqsUpTo(S, n) ==
    IF n = 0 THEN {<<>>}
    ELSE LET shorter == SeqsUpTo(S, n - 1)
         IN shorter \cup {Append(s, x) : s \in {t \in shorter : Len(t) = n - 1}, x \in S}

Markers == {FA, ACT, INP}

(***************************************************************************)
(* The tool registries, as the agent factories build them.                 *)
(***************************************************************************)
LoopKinds == {"orchestrator", "math", "weather", "datetime"}

get_operator_agents == {"weather_operator", "math_operator"}

math_tools == {"calculate", "math_help"}

weather_tools == {"get_current_weather", "get_weather_forecast", "weather_help"}

datetime_tools ==
    {"get_unix_time", "get_week_number", "check_leap_year", "validate_date",
     "get_weekday", "calculate_progress", "countdown_to_date", "calculate_age",
     "get_co2_level", "get_german_holidays", "datetime_help"}

ToolsOf(k) ==
    CASE k = "orchestrator" -> get_operator_agents
      [] k = "math" -> math_tools
      [] k = "weather" -> weather_tools
      [] k = "datetime" -> datetime_tools

OrchestratorMaxIterations == 10
OperatorMaxIterations == 5

max_iterations(k) ==
    IF k = "orchestrator" THEN OrchestratorMaxIterations ELSE OperatorMaxIterations

handle_parsing_errors == TRUE

\* The words a completion of executor k may contain besides markers and
\* whitespace: the name of one registered tool and one name that is not
\* registered with that executor.
Vocabulary(k) ==
    CASE k = "orchestrator" -> {"math_operator", "datetime_operator"}
      [] k = "math" -> {"calculate", "sqrt"}
      [] k = "weather" -> {"get_current_weather", "get_weather"}
      [] k = "datetime" -> {"check_leap_year", "get_date"}

\* A turn that asks for two actions at once, each with its input marker.
MultiActionTexts(k) ==
    {<<ACT, a, INP, ACT, b, INP>> : a, b \in Vocabulary(k)}

Texts(k) ==
    SeqsUpTo(Markers \cup {SP} \cup Vocabulary(k), MaxTextLen) \cup MultiActionTexts(k)

(***************************************************************************)
(* The ReAct output parser the executors are built with                    *)
(* (create_react_agent: ReActSingleInputOutputParser.parse).               *)
(***************************************************************************)
Positions(text, tok) == {i \in DOMAIN text : text[i] = tok}

Range(s) == {s[i] : i \in DOMAIN s}

Min(S) == CHOOSE x \in S : \A y \in S : x <= y
Max(S) == CHOOSE x \in S : \A y \in S : x >= y

\* str.strip(): leading and trailing whitespace removed.
Strip(s) ==
    LET keep == {i \in DOMAIN s : s[i] # SP}
    IN IF keep = {} THEN <<>> ELSE SubSeq(s, Min(keep), Max(keep))

\* The text left of the first whitespace-free position is dropped ([\s]* of the regex).
LStrip(s) ==
    LET keep == {i \in DOMAIN s : s[i] # SP}
    IN IF keep = {} THEN <<>> ELSE SubSeq(s, Min(keep), Len(s))

\* "Final Answer:" in text
includes_answer(text) == Positions(text, FA) # {}

\* re.search(r"Action\s*\d*\s*:[\s]*(.*?)[\s]*Action\s*\d*\s*Input\s*\d*\s*:[\s]*(.*)")
action_match(text) ==
    \E i \in Positions(text, ACT), j \in Positions(text, INP) : i < j

\* The match starts at the leftmost "Action:" and its lazy first group ends at
\* the first "Action Input:" after it; the second group takes the rest.
MatchStart(text) == Min(Positions(text, ACT))
MatchInput(text) == Min({j \in Positions(text, INP) : j > MatchStart(text)})
action_group(text) == Strip(SubSeq(text, MatchStart(text) + 1, MatchInput(text) - 1))
input_group(text) == Strip(LStrip(SubSeq(text, MatchInput(text) + 1, Len(text))))

\* The text after the marker, taken as it stands
FinalAnswerUnstripped(text) == SubSeq(text, Max(Positions(text, FA)) + 1, Len(text))

\* text.split("Final Answer:")[-1].strip()
FinalAnswerText(text) == Strip(SubSeq(text, Max(Positions(text, FA)) + 1, Len(text)))

BothMessage == "Parsing LLM output produced both a final answer and a parse-able action:"
CouldNotParse == "Could not parse LLM output"
InvalidOrIncomplete == "Invalid or incomplete response"
MissingAction == "Invalid Format: Missing 'Action:' after 'Thought:'"
MissingActionInput == "Invalid Format: Missing 'Action Input:' after 'Action:'"
StoppedMessage == "Agent stopped due to iteration limit or time limit."

Finish(out) ==
    [type |-> "finish", tool |-> <<>>, tool_input |-> <<>>, output |-> out,
     observation |-> "", log |-> ""]
Action(tool, input) ==
    [type |-> "action", tool |-> tool, tool_input |-> input, output |-> <<>>,
     observation |-> "", log |-> ""]
ParseError(observation, log) ==
    [type |-> "error", tool |-> <<>>, tool_input |-> <<>>, output |-> <<>>,
     observation |-> observation, log |-> log]

\* A parser that lets the final answer win when an action is present too
ParseAnswerFirst(text) ==
    IF includes_answer(text) THEN Finish(FinalAnswerText(text))
    ELSE IF action_match(text) THEN Action(action_group(text), input_group(text))
    ELSE ParseError(InvalidOrIncomplete, CouldNotParse)

\* An OutputParserException without send_to_llm is observed as "Invalid or
\* incomplete response"; with send_to_llm its own observation is used.
ParseReAct(text) ==
    IF action_match(text)
    THEN IF includes_answer(text)
         THEN ParseError(InvalidOrIncomplete, BothMessage)
         ELSE Action(action_group(text), input_group(text))
    ELSE IF includes_answer(text)
    THEN Finish(FinalAnswerText(text))
    ELSE IF Positions(text, ACT) = {}
    THEN ParseError(MissingAction, CouldNotParse)
    ELSE IF Positions(text, INP) = {}
    THEN ParseError(MissingActionInput, CouldNotParse)
    ELSE ParseError(InvalidOrIncomplete, CouldNotParse)


(***************************************************************************)
(* Tools.  A call either returns a string or raises; the environment of a  *)
(* call (the input it is given, what the remote service does) is a case.   *)
(***************************************************************************)
Ret(v) == [raised |-> FALSE, value |-> v]
Raise(exc) == [raised |-> TRUE, value |-> exc]

\* ---- tools/operators/math_operator.py
CalcCases ==
    {"ok", "empty", "invalid_characters", "unbalanced_parentheses",
     "division_by_zero", "unsupported_node", "unexpected"}

validate_math_expression(c) ==
    IF c = "invalid_characters" THEN Raise("ValueError")
    ELSE IF c = "unbalanced_parentheses" THEN Raise("ValueError")
    ELSE Ret("clean_expression")

safe_eval(c) ==
    IF c = "division_by_zero" THEN Raise("ZeroDivisionError")
    ELSE IF c = "unsupported_node" THEN Raise("ValueError")
    ELSE IF c = "unexpected" THEN Raise("Exception")
    ELSE Ret("number")

calculate_try(c) ==
    IF c = "empty" THEN Ret("Error: No expression provided.")
    ELSE IF validate_math_expression(c).raised THEN validate_math_expression(c)
    ELSE IF safe_eval(c).raised THEN safe_eval(c)
    ELSE Ret("The calculation result is")

\* calculate without its except clauses
calculate_reraise(r) == r

\* the except clauses of calculate
calculate_except(r) ==
    IF ~r.raised THEN r
    ELSE IF r.value = "ZeroDivisionError"
    THEN Ret("Error: Division by zero is not allowed in mathematical expressions.")
    ELSE IF r.value = "ValueError" THEN Ret("Error: Invalid mathematical expression")
    ELSE Ret("Error: An unexpected error occurred while calculating the expression.")

calculate(c) == calculate_except(calculate_try(c))

math_help == Ret("Mathematical Calculator Help")

\* ---- tools/operators/weather_operator.py
WeatherCases ==
    {"ok", "empty", "bad_coordinates", "geocode_no_results", "geocode_network_error",
     "geocode_http_error", "forecast_network_error", "forecast_http_error",
     "format_error", "unexpected"}

geocode_location(c) ==
    IF c \in {"geocode_no_results", "geocode_network_error", "geocode_http_error"}
    THEN None ELSE "location_info"

format_weather_response(c) ==
    IF c = "format_error" THEN "Error formatting weather data"
    ELSE "Weather information for"

weather_try(c, ok_text) ==
    IF c = "empty" THEN Ret("Error: Please provide a valid location name or coordinates.")
    ELSE IF c = "bad_coordinates" THEN Ret("Error: Invalid coordinate format.")
    ELSE IF geocode_location(c) = None THEN Ret("Error: Could not find coordinates for location")
    ELSE IF c \in {"forecast_network_error", "forecast_http_error"}
    THEN Raise("RequestException")
    ELSE IF c = "unexpected" THEN Raise("Exception")
    ELSE Ret(ok_text)

get_current_weather(c) ==
    LET r == weather_try(c, format_weather_response(c))
    IN IF ~r.raised THEN r
       ELSE IF r.value = "RequestException"
       THEN Ret("Error fetching weather data: Network error")
       ELSE Ret("Error: An unexpected error occurred while fetching weather data.")

get_weather_forecast(c) ==
    LET r == weather_try(c, "Weather forecast for")
    IN IF ~r.raised THEN r
       ELSE IF r.value = "RequestException"
       THEN Ret("Error fetching weather forecast: Network error")
       ELSE Ret("Error: An unexpected error occurred while fetching weather forecast.")

weather_help == Ret("Weather Tools Help")

\* ---- tools/operators/datetime_operator.py
DigidatesCases ==
    {"ok", "network_error", "http_error", "invalid_json", "bad_input", "bad_payload"}

make_digidates_request(c) ==
    IF c \in {"network_error", "http_error"} THEN None   \* RequestException
    ELSE IF c = "invalid_json" THEN None                 \* any other exception
    ELSE "result"

\* Every date tool has the shape of check_leap_year: the input is parsed, the
\* request is made, None gives the "Unable to" string, and the answer is
\* formatted; the tool's own except clause turns anything raised into a string.
digidates_try(c) ==
    IF c = "bad_input" THEN Raise("Exception")
    ELSE IF make_digidates_request(c) = None THEN Ret("Error: Unable to")
    ELSE IF c = "bad_payload" THEN Raise("Exception")
    ELSE Ret("date answer")

digidates_tool(c) ==
    IF digidates_try(c).raised THEN Ret("Error getting") ELSE digidates_try(c)

datetime_help == Ret("DateTime Tools Help")

\* ---- the delegation bridges as the orchestrator's tools: what a call returns
\* "operator_stopped": the operator's own loop ran out of its budget.
DelegationCases == {"ok", "operator_failed", "operator_stopped"}

delegation_return(c) ==
    IF c = "ok" THEN Ret("operator output")
    ELSE IF c = "operator_stopped" THEN Ret(StoppedMessage)
    ELSE Ret("Error in operator")

ToolCases(tool) ==
    CASE tool = "calculate" -> CalcCases
      [] tool \in {"get_current_weather", "get_weather_forecast"} -> WeatherCases
      [] tool \in {"math_help", "weather_help", "datetime_help"} -> {"ok"}
      [] tool \in datetime_tools -> DigidatesCases
      [] tool \in get_operator_agents -> DelegationCases

\* tool.run(tool_input) for a registered tool
ToolRun(tool, c) ==
    CASE tool = "calculate" -> calculate(c)
      [] tool = "math_help" -> math_help
      [] tool = "get_current_weather" -> get_current_weather(c)
      [] tool = "get_weather_forecast" -> get_weather_forecast(c)
      [] tool = "weather_help" -> weather_help
      [] tool = "datetime_help" -> datetime_help
      [] tool \in datetime_tools -> digidates_tool(c)
      [] tool \in get_operator_agents -> delegation_return(c)

\* The strings above that begin with "Error".
ErrorIndicator(obs) ==
    obs \in {"Error: No expression provided.",
             "Error: Division by zero is not allowed in mathematical expressions.",
             "Error: Invalid mathematical expression",
             "Error: An unexpected error occurred while calculating the expression.",
             "Error: Please provide a valid location name or coordinates.",
             "Error: Invalid coordinate format.",
             "Error: Could not find coordinates for location",
             "Error fetching weather data: Network error",
             "Error: An unexpected error occurred while fetching weather data.",
             "Error formatting weather data",
             "Error fetching weather forecast: Network error",
             "Error: An unexpected error occurred while fetching weather forecast.",
             "Error: Unable to",
             "Error getting",
             "Error in operator"}


(***************************************************************************)
(* One run of a loop: AgentExecutor(agent, tools, max_iterations,          *)
(* max_execution_time, handle_parsing_errors=True).invoke({"input": ...})  *)
(***************************************************************************)
\* failed: the step is a tool invocation that did not succeed
NoStep == [tool |-> "", input |-> <<>>, obs |-> "", log |-> "", failed |-> FALSE]

ExceptionTool == "_Exception"
InvalidToolMessage == "is not a valid tool, try one of"

\* AgentAction.tool is the stripped first group; a name of several tokens is
\* kept as one opaque string.
ToolName(action) ==
    IF action = <<>> THEN ""
    ELSE IF Len(action) = 1 THEN action[1]
    ELSE "(several tokens)"

LoopIdle ==
    /\ kind = "orchestrator"
    /\ pc = "idle"
    /\ iterations = 0
    /\ n_steps = 0
    /\ last_step = NoStep
    /\ llm_output = <<>>
    /\ final_output = <<>>
    /\ terminated = "running"
    /\ llm_calls = 0
    /\ tool_calls = 0
    /\ all_malformed = TRUE
    /\ budget_elapsed = FALSE

LoopInit ==
    /\ kind \in LoopKinds
    /\ pc = "llm"
    /\ iterations = 0
    /\ n_steps = 0
    /\ last_step = NoStep
    /\ llm_output = <<>>
    /\ final_output = <<>>
    /\ terminated = "running"
    /\ llm_calls = 0
    /\ tool_calls = 0
    /\ all_malformed = TRUE
    /\ budget_elapsed = FALSE

\* A loop condition that admits one iteration too many
ShouldContinueInclusive(its, time_is_up) ==
    /\ its <= max_iterations(kind)
    /\ ~time_is_up

\* A loop condition that never looks at the time
ShouldContinueIgnoringTime(its, time_is_up) ==
    its < max_iterations(kind)

\* _should_continue(iterations, time_elapsed), evaluated with the counter the
\* iteration just incremented and the wall-clock time it just measured.
ShouldContinue(its, time_is_up) ==
    /\ its < max_iterations(kind)
    /\ ~time_is_up

StopReason(its) ==
    IF its >= max_iterations(kind) THEN "max_iterations" ELSE "max_time"

\* An executor for which running out of budget is an error
EndIterationRaising(step) ==
    /\ iterations' = iterations + 1
    /\ n_steps' = n_steps + 1
    /\ last_step' = step
    /\ llm_output' = <<>>
    /\ IF ShouldContinue(iterations + 1, budget_elapsed)
       THEN /\ pc' = "llm"
            /\ UNCHANGED <<final_output, terminated>>
       ELSE /\ pc' = "done"
            /\ terminated' = "raised"
            /\ UNCHANGED final_output

\* The end of an iteration of _call: the step is appended, the counter and the
\* elapsed time are updated, and the loop condition is evaluated again; when it
\* fails the run returns return_stopped_response("force").
EndIteration(step) ==
    /\ iterations' = iterations + 1
    /\ n_steps' = n_steps + 1
    /\ last_step' = step
    /\ llm_output' = <<>>
    /\ IF ShouldContinue(iterations + 1, budget_elapsed)
       THEN /\ pc' = "llm"
            /\ UNCHANGED <<final_output, terminated>>
       ELSE /\ pc' = "done"
            /\ final_output' = <<StoppedMessage>>
            /\ terminated' = StopReason(iterations + 1)

\* The budget runs out while the completion service or a tool is at work:
\* nothing in the executor notices before the iteration ends.
BudgetElapses ==
    /\ pc \in {"llm", "act"}
    /\ ~budget_elapsed
    /\ budget_elapsed' = TRUE
    /\ UNCHANGED <<kind, pc, iterations, n_steps, last_step, llm_output, final_output,
                   terminated, llm_calls, tool_calls, all_malformed>>

\* agent.plan: the completion service answers.
CallLLM ==
    /\ pc = "llm"
    /\ \E text \in Texts(kind) : llm_output' = text
    /\ llm_calls' = llm_calls + 1
    /\ pc' = "act"
    /\ UNCHANGED <<kind, budget_elapsed, iterations, n_steps, last_step, final_output, terminated,
                   tool_calls, all_malformed>>

\* agent.plan: the completion service fails; nothing in _call catches it.
LLMFails ==
    /\ pc = "llm"
    /\ llm_calls' = llm_calls + 1
    /\ pc' = "done"
    /\ terminated' = "raised"
    /\ UNCHANGED <<kind, budget_elapsed, iterations, n_steps, last_step, llm_output, final_output,
                   tool_calls, all_malformed>>

\* The output parsed to an AgentFinish: _call returns it.
AgentFinish ==
    /\ pc = "act"
    /\ ParseReAct(llm_output).type = "finish"
    /\ final_output' = ParseReAct(llm_output).output
    /\ terminated' = "final_answer"
    /\ pc' = "done"
    /\ llm_output' = <<>>
    /\ all_malformed' = FALSE
    /\ UNCHANGED <<kind, budget_elapsed, iterations, n_steps, last_step, llm_calls, tool_calls>>

\* OutputParserException with handle_parsing_errors: the step
\* (AgentAction("_Exception", observation, text), observation) is recorded.
ParseErrorStep ==
    /\ pc = "act"
    /\ ParseReAct(llm_output).type = "error"
    /\ IF handle_parsing_errors
       THEN /\ EndIteration([tool |-> ExceptionTool,
                             input |-> <<ParseReAct(llm_output).observation>>,
                             obs |-> ParseReAct(llm_output).observation,
                             log |-> ParseReAct(llm_output).log,
                             failed |-> FALSE])
            /\ UNCHANGED <<kind, budget_elapsed, llm_calls, tool_calls, all_malformed>>
       ELSE /\ pc' = "done"
            /\ terminated' = "raised"
            /\ UNCHANGED <<kind, budget_elapsed, iterations, n_steps, last_step, llm_output,
                           final_output, llm_calls, tool_calls, all_malformed>>

\* An executor that raises on an unknown tool name
InvalidToolRaises ==
    /\ pc = "act"
    /\ ParseReAct(llm_output).type = "action"
    /\ ToolName(ParseReAct(llm_output).tool) \notin ToolsOf(kind)
    /\ pc' = "done"
    /\ terminated' = "raised"
    /\ llm_output' = <<>>
    /\ all_malformed' = FALSE
    /\ UNCHANGED <<kind, budget_elapsed, iterations, n_steps, last_step, final_output, llm_calls,
                   tool_calls>>

\* _perform_agent_action, the name is not in name_to_tool_map: InvalidTool
InvalidToolStep ==
    /\ pc = "act"
    /\ ParseReAct(llm_output).type = "action"
    /\ ToolName(ParseReAct(llm_output).tool) \notin ToolsOf(kind)
    /\ EndIteration([tool |-> ToolName(ParseReAct(llm_output).tool),
                     input |-> ParseReAct(llm_output).tool_input,
                     obs |-> InvalidToolMessage, log |-> "action", failed |-> FALSE])
    /\ all_malformed' = FALSE
    /\ UNCHANGED <<kind, budget_elapsed, llm_calls, tool_calls>>

\* An executor that runs the named tool once for every Action marker of the turn
ToolStepPerMarker ==
    /\ pc = "act"
    /\ ParseReAct(llm_output).type = "action"
    /\ ToolName(ParseReAct(llm_output).tool) \in ToolsOf(kind)
    /\ tool_calls' = tool_calls + Cardinality(Positions(llm_output, ACT))
    /\ all_malformed' = FALSE
    /\ \E c \in ToolCases(ToolName(ParseReAct(llm_output).tool)) :
         LET tool == ToolName(ParseReAct(llm_output).tool)
             r == ToolRun(tool, c)
         IN IF r.raised
            THEN /\ pc' = "done"
                 /\ terminated' = "raised"
                 /\ llm_output' = <<>>
                 /\ UNCHANGED <<iterations, n_steps, last_step, final_output>>
            ELSE EndIteration([tool |-> tool, input |-> ParseReAct(llm_output).tool_input,
                               obs |-> r.value, log |-> "action",
                               failed |-> c \notin {"ok", "operator_stopped"}])
    /\ UNCHANGED <<kind, budget_elapsed, llm_calls>>

\* _perform_agent_action, the name is registered: tool.run.  A tool that
\* raises ends the run: _call catches nothing.
ToolStep ==
    /\ pc = "act"
    /\ ParseReAct(llm_output).type = "action"
    /\ ToolName(ParseReAct(llm_output).tool) \in ToolsOf(kind)
    /\ tool_calls' = tool_calls + 1
    /\ all_malformed' = FALSE
    /\ \E c \in ToolCases(ToolName(ParseReAct(llm_output).tool)) :
         LET tool == ToolName(ParseReAct(llm_output).tool)
             r == ToolRun(tool, c)
         IN IF r.raised
            THEN /\ pc' = "done"
                 /\ terminated' = "raised"
                 /\ llm_output' = <<>>
                 /\ UNCHANGED <<iterations, n_steps, last_step, final_output>>
            ELSE EndIteration([tool |-> tool, input |-> ParseReAct(llm_output).tool_input,
                               obs |-> r.value, log |-> "action",
                               failed |-> c \notin {"ok", "operator_stopped"}])
    /\ UNCHANGED <<kind, budget_elapsed, llm_calls>>



(***************************************************************************)
(* One delegation call: math_operator, weather_operator, datetime_operator *)
(* and execute_operator_with_tracing share one shape.  An inner try runs   *)
(* the operator inside a span; its except clause runs the operator again   *)
(* without a span; an outer except clause formats what is left.            *)
(***************************************************************************)
Delegations ==
    {"math_operator", "weather_operator", "datetime_operator",
     "execute_operator_with_tracing"}

\* What agent.invoke({"input": query}) hands back: result["output"] of a run
\* that ended by a final answer or by the stop response, or the exception the
\* run raised (the completion service failed).
RunOutputs == {"final answer", "another final answer", StoppedMessage}
CompletionError == "completion-service error"
RunOutcomes == {Ret(o) : o \in RunOutputs} \cup {Raise(CompletionError)}

\* The string the outer except clause returns
error_msg(op) ==
    CASE op = "math_operator" -> "Error in math operator:"
      [] op = "weather_operator" -> "Error in weather operator:"
      [] op = "datetime_operator" -> "Error: DateTime operator failed:"
      [] op = "execute_operator_with_tracing" -> "Error in operator:"

\* The outer handler with its except clause removed
outer_reraise(op, e) == Raise(e)

\* except Exception as e: ... return error_msg
outer_except(op, e) == Ret(error_msg(op))

MaxDelegations == 2
MaxSteps == 2

\* The query strings the orchestrator hands to a bridge
Queries == {"What is 2+2?", "Weather in Paris"}

\* AgentExecutor._call: intermediate_steps = [] -- whatever an earlier run
\* collected, a run starts with no step.
kept_transcript(earlier) == earlier

new_transcript(earlier) == <<>>

\* The steps of the latest operator run
LatestSteps ==
    IF d_transcripts = <<>> THEN <<>> ELSE d_transcripts[Len(d_transcripts)].steps

\* agent.invoke({"input": query}) on the executor the bridge holds: the run
\* begins with its transcript and appends the steps it takes.
OperatorRun ==
    \E n \in 0..MaxSteps :
        d_transcripts' = Append(d_transcripts,
            [call |-> d_call, executor |-> d_executor, input |-> d_query,
             steps |-> new_transcript(LatestSteps)
                       \o [i \in 1..n |-> [call |-> d_call, executor |-> d_executor]]])

DelegationIdle ==
    /\ d_call = 0
    /\ d_query = None
    /\ d_executor = 0
    /\ d_transcripts = <<>>
    /\ d_operator = "math_operator"
    /\ d_pc = "idle"
    /\ d_runs = <<>>
    /\ d_started = 0
    /\ d_failures = {}
    /\ d_result = Ret(None)

DelegationInit ==
    /\ d_call = 1
    /\ d_query \in Queries
    /\ d_executor = 0
    /\ d_transcripts = <<>>
    /\ d_operator \in Delegations
    /\ d_pc = "start"
    /\ d_runs = <<>>
    /\ d_started = 0
    /\ d_failures = {}
    /\ d_result = Ret(None)

\* get_client() and start_as_current_span(...): the span is entered, or the
\* tracing client fails and the inner except clause takes over.
StartSpan ==
    /\ d_pc = "start"
    /\ \E ok \in BOOLEAN :
         IF ok THEN d_pc' = "traced_create" /\ UNCHANGED d_failures
         ELSE /\ d_pc' = "fallback_create"
              /\ d_failures' = d_failures \cup {"span_create"}
    /\ UNCHANGED <<d_operator, d_runs, d_started, d_result, d_call, d_query,
                   d_executor, d_transcripts>>

\* Inside the span: the settings and the model configuration are loaded and the
\* operator is built.  Whatever this raises is caught by the inner except.
TracedCreateAgent ==
    /\ d_pc = "traced_create"
    /\ \E ok \in BOOLEAN :
         IF ok
         THEN /\ d_pc' = "traced_invoke"
              /\ d_executor' = d_executor + 1
              /\ UNCHANGED d_failures
         ELSE /\ d_pc' = "fallback_create"
              /\ d_failures' = d_failures \cup {"agent_create"}
              /\ UNCHANGED d_executor
    /\ UNCHANGED <<d_operator, d_runs, d_started, d_result, d_call, d_query,
                   d_transcripts>>

\* Inside the span: agent.invoke.  An exception of the run is caught by the
\* inner except as well.
TracedInvoke ==
    /\ d_pc = "traced_invoke"
    /\ d_started' = d_started + 1
    /\ \E r \in RunOutcomes :
         IF r.raised
         THEN /\ d_pc' = "fallback_create"
              /\ d_failures' = d_failures \cup {"completion"}
              /\ UNCHANGED d_runs
         ELSE /\ d_pc' = "traced_update"
              /\ d_runs' = Append(d_runs, r.value)
              /\ UNCHANGED d_failures
    /\ OperatorRun
    /\ UNCHANGED <<d_operator, d_result, d_call, d_query, d_executor>>

\* operator_span.update(output=...) and return output; an exception of the
\* update is caught by the inner except as well.
UpdateSpan ==
    /\ d_pc = "traced_update"
    /\ \E ok \in BOOLEAN :
         IF ok
         THEN /\ d_pc' = "done"
              /\ d_result' = Ret(d_runs[Len(d_runs)])
              /\ UNCHANGED d_failures
         ELSE /\ d_pc' = "fallback_create"
              /\ d_failures' = d_failures \cup {"span_update"}
              /\ UNCHANGED d_result
    /\ UNCHANGED <<d_operator, d_runs, d_started, d_call, d_query, d_executor,
                   d_transcripts>>

\* The inner except clause: the operator is built again; an exception here
\* reaches the outer except clause.
FallbackCreateAgent ==
    /\ d_pc = "fallback_create"
    /\ \E ok \in BOOLEAN :
         IF ok
         THEN /\ d_pc' = "fallback_invoke"
              /\ d_executor' = d_executor + 1
              /\ UNCHANGED <<d_failures, d_result>>
         ELSE /\ d_pc' = "done"
              /\ d_failures' = d_failures \cup {"fallback_agent_create"}
              /\ d_result' = outer_except(d_operator, "agent construction failed")
              /\ UNCHANGED d_executor
    /\ UNCHANGED <<d_operator, d_runs, d_started, d_call, d_query, d_transcripts>>

\* The inner except clause: agent.invoke and return output; an exception of
\* the run reaches the outer except clause.
FallbackInvoke ==
    /\ d_pc = "fallback_invoke"
    /\ d_started' = d_started + 1
    /\ \E r \in RunOutcomes :
         IF r.raised
         THEN /\ d_failures' = d_failures \cup {"fallback_completion"}
              /\ d_result' = outer_except(d_operator, r.value)
              /\ UNCHANGED d_runs
         ELSE /\ d_runs' = Append(d_runs, r.value)
              /\ d_result' = Ret(r.value)
              /\ UNCHANGED d_failures
    /\ d_pc' = "done"
    /\ OperatorRun
    /\ UNCHANGED <<d_operator, d_call, d_query, d_executor>>

\* The orchestrator delegates again: the bridge function is called anew with
\* the query of the next Action Input.
Delegate ==
    /\ d_pc = "done"
    /\ d_call < MaxDelegations
    /\ d_call' = d_call + 1
    /\ d_operator' \in Delegations
    /\ d_query' \in Queries
    /\ d_pc' = "start"
    /\ d_runs' = <<>>
    /\ d_started' = 0
    /\ d_failures' = {}
    /\ d_result' = Ret(None)
    /\ UNCHANGED <<d_executor, d_transcripts>>


(***************************************************************************)
(* POST /invoke.  invoke_agent is a coroutine: what lies between two       *)
(* awaits runs without interleaving on the event loop; the orchestrator    *)
(* run is handed to a worker thread (asyncio.to_thread), so the runs of    *)
(* two requests interleave step by step.                                   *)
(***************************************************************************)
Requests == {"A", "B"}

\* Agent actions one orchestrator run takes at most, in this model.
MaxActions == 2

\* The session ids a request body may carry: none, the empty string, a name.
SessionIds == {None, "", "session-1"}

\* str(uuid.uuid4()): an identifier no other call returns
uuid4(r, what) ==
    IF what = "request"
    THEN (IF r = "A" THEN "uuid4-request-A" ELSE "uuid4-request-B")
    ELSE (IF r = "A" THEN "uuid4-session-A" ELSE "uuid4-session-B")

NoResponse ==
    [output |-> None, session_id |-> None, request_id |-> None,
     detail |-> None, exception_text |-> FALSE]

Unread == "unread"

\* The module as imported: nothing initialised, no request received.
InvokeIdle ==
    /\ r_parent = [r \in Requests |-> Unread]
    /\ r_response = [r \in Requests |-> NoResponse]
    /\ info_response = [status |-> 0, detail |-> None, body |-> None]
    /\ app_state = [agent_executor |-> None, langfuse_client |-> None, settings |-> None]
    /\ current_trace = None
    /\ step_counter = 0
    /\ r_pc = [r \in Requests |-> "idle"]
    /\ r_trace = [r \in Requests |-> None]
    /\ r_actions = [r \in Requests |-> 0]
    /\ r_logged = [r \in Requests |-> 0]
    /\ r_failures = [r \in Requests |-> {}]
    /\ r_loaded = [r \in Requests |-> 0]
    /\ r_run = [r \in Requests |-> "none"]
    /\ r_status = [r \in Requests |-> 0]

\* Two requests that carry no session_id
InvokeInit ==
    /\ InvokeIdle
    /\ r_session_in = [r \in Requests |-> None]

\* The lifespan with its startup cut short after the tracing client was set:
\* the application serves requests without an executor.
lifespan_without_executor ==
    /\ app_state.agent_executor = None
    /\ app_state.langfuse_client = None
    /\ app_state' = [agent_executor |-> None, langfuse_client |-> "langfuse",
                     settings |-> [log_level |-> "INFO"]]
    /\ UNCHANGED <<current_trace, step_counter, r_pc, r_trace, r_actions, r_logged,
                   r_failures, r_loaded, r_run, r_status, r_parent, r_session_in,
                   r_response, info_response>>

\* lifespan, startup: the tracing client is created if it can be, then the one
\* executor with its one ProperLoggingCallback.
\* A request served before this has run (the app driven without its lifespan)
\* finds app_state as the module initialises it.
lifespan ==
    /\ app_state.agent_executor = None
    /\ \E client \in {None, "langfuse"}, level \in {"INFO", "DEBUG"} :
         app_state' = [agent_executor |-> "executor", langfuse_client |-> client,
                       settings |-> [log_level |-> level]]
    /\ UNCHANGED <<current_trace, step_counter, r_pc, r_trace, r_actions, r_logged,
                   r_failures, r_loaded, r_run, r_status, r_parent, r_session_in,
                   r_response, info_response>>

\* The body of an HTTPException(status_code, detail); mentions tells whether
\* the detail is built with str(e) of the exception that was caught.
ErrorBody(detail, mentions) ==
    [output |-> None, session_id |-> None, request_id |-> None,
     detail |-> detail, exception_text |-> mentions]

\* The session id taken from the body whenever the field is present
session_id_unless_none(r) ==
    IF r_session_in[r] # None THEN r_session_in[r] ELSE uuid4(r, "session")

\* session_id = request.session_id or str(uuid.uuid4())
session_id(r) ==
    IF r_session_in[r] # None /\ r_session_in[r] # ""
    THEN r_session_in[r] ELSE uuid4(r, "session")

\* InvokeResponse(output=..., session_id=session_id, request_id=request_id, ...)
InvokeResponse(r) ==
    [output |-> "output of the run", session_id |-> session_id(r),
     request_id |-> uuid4(r, "request"), detail |-> None, exception_text |-> FALSE]

Respond(r, status, run, failures, body) ==
    /\ r_response' = [r_response EXCEPT ![r] = body]
    /\ r_pc' = [r_pc EXCEPT ![r] = "responded"]
    /\ r_status' = [r_status EXCEPT ![r] = status]
    /\ r_run' = [r_run EXCEPT ![r] = run]
    /\ r_failures' = [r_failures EXCEPT ![r] = @ \cup failures]

\* invoke_agent up to the await: the trace is created (a failure is caught),
\* the executor is looked up, the agent span is created, the trace is
\* published in tools.factory._current_trace and the run is started.
InvokeBegin(r) ==
    /\ r_pc[r] = "idle"
    /\ \E fails \in SUBSET {"trace", "trace.update", "trace.span"} :
         LET trace == IF app_state.langfuse_client # None /\ "trace" \notin fails
                      THEN r ELSE None
             created == IF app_state.langfuse_client # None
                        THEN fails \cap {"trace"} ELSE {}
         IN /\ r_trace' = [r_trace EXCEPT ![r] = trace]
            /\ IF app_state.agent_executor = None
               THEN /\ IF trace # None /\ "trace.update" \in fails
                       THEN Respond(r, 500, "uninitialised", created \cup {"trace.update"},
                                    ErrorBody("Unexpected error:", TRUE))
                       ELSE Respond(r, 503, "uninitialised", created,
                                    ErrorBody("Agent not initialized", FALSE))
                    /\ UNCHANGED current_trace
               ELSE IF trace # None /\ "trace.span" \in fails
               THEN /\ Respond(r, 500, "not_started", created \cup {"trace.span"},
                            ErrorBody("Unexpected error:", TRUE))
                    /\ UNCHANGED current_trace
               ELSE /\ current_trace' = IF trace # None THEN trace ELSE current_trace
                    /\ r_pc' = [r_pc EXCEPT ![r] = "running"]
                    /\ r_run' = [r_run EXCEPT ![r] = "running"]
                    /\ r_failures' = [r_failures EXCEPT ![r] = @ \cup created]
                    /\ UNCHANGED <<r_status, r_response>>
    /\ UNCHANGED <<app_state, step_counter, r_actions, r_logged, r_loaded, r_parent,
                   r_session_in, info_response>>

\* on_agent_action, "self.step_counter += 1": the attribute is read ...
ActionLoad(r) ==
    /\ r_pc[r] = "running"
    /\ r_actions[r] < MaxActions
    /\ r_loaded' = [r_loaded EXCEPT ![r] = step_counter]
    /\ r_pc' = [r_pc EXCEPT ![r] = "store"]
    /\ UNCHANGED <<app_state, current_trace, step_counter, r_trace, r_actions,
                   r_logged, r_failures, r_run, r_status, r_parent, r_session_in,
                   r_response, info_response>>

\* ... and written back incremented
ActionStore(r) ==
    /\ r_pc[r] = "store"
    /\ step_counter' = r_loaded[r] + 1
    /\ r_pc' = [r_pc EXCEPT ![r] = "log"]
    /\ UNCHANGED <<app_state, current_trace, r_trace, r_actions, r_logged,
                   r_failures, r_loaded, r_run, r_status, r_parent, r_session_in,
                   r_response, info_response>>

\* on_agent_action, the log line "Action #{self.step_counter}"
ActionLog(r) ==
    /\ r_pc[r] = "log"
    /\ r_logged' = [r_logged EXCEPT ![r] = step_counter]
    /\ r_actions' = [r_actions EXCEPT ![r] = @ + 1]
    /\ r_pc' = [r_pc EXCEPT ![r] = "running"]
    /\ UNCHANGED <<app_state, current_trace, step_counter, r_trace, r_failures,
                   r_loaded, r_run, r_status, r_parent, r_session_in, r_response,
                   info_response>>

\* The run returns (on_chain_end resets the counter) or raises.
RunEnd(r) ==
    /\ r_pc[r] = "running"
    /\ \E ok \in BOOLEAN :
         IF ok
         THEN /\ step_counter' = 0
              /\ r_pc' = [r_pc EXCEPT ![r] = "returned"]
              /\ r_run' = [r_run EXCEPT ![r] = "succeeded"]
         ELSE /\ r_pc' = [r_pc EXCEPT ![r] = "failed"]
              /\ r_run' = [r_run EXCEPT ![r] = "raised"]
              /\ UNCHANGED step_counter
    /\ UNCHANGED <<app_state, current_trace, r_trace, r_actions, r_logged,
                   r_failures, r_loaded, r_status, r_parent, r_session_in,
                   r_response, info_response>>

\* invoke_agent after the await.  The run returned: the global trace is
\* cleared, the span and the trace are updated, the response is built.  An
\* exception of either update, like an exception of the run, is answered by
\* the except clauses with status 500.
InvokeFinish(r) ==
    /\ r_pc[r] \in {"returned", "failed"}
    /\ \E fails \in SUBSET {"agent_span.update", "trace.update"} :
         LET occurred == IF r_trace[r] = None THEN {} ELSE
                         IF "agent_span.update" \in fails THEN {"agent_span.update"}
                         ELSE fails
         IN /\ current_trace' = IF r_pc[r] = "returned" /\ r_trace[r] # None
                                THEN None ELSE current_trace
            /\ IF r_pc[r] = "returned" /\ occurred = {}
               THEN Respond(r, 200, r_run[r], {}, InvokeResponse(r))
               ELSE IF r_pc[r] = "returned"
               THEN Respond(r, 500, r_run[r], occurred,
                            ErrorBody("Agent execution failed:", TRUE))
               ELSE IF occurred = {}
               THEN Respond(r, 500, r_run[r], {},
                            ErrorBody("Agent execution failed:", TRUE))
               ELSE Respond(r, 500, r_run[r], occurred,
                            ErrorBody("Unexpected error:", TRUE))
    /\ UNCHANGED <<app_state, step_counter, r_trace, r_actions, r_logged, r_loaded,
                   r_parent, r_session_in, info_response>>

\* GET /agent/info: the HTTPException(503) is raised inside the try block whose
\* except Exception clause answers 500; get_agent_info itself catches whatever
\* fails and returns a dict with an "error" key.
get_agent_information ==
    /\ IF app_state.agent_executor = None
       THEN info_response' =
              [status |-> 500,
               detail |-> "Error retrieving agent information: 503: Agent not initialized",
               body |-> None]
       ELSE \E info \in {"agent information", "error"} :
              info_response' = [status |-> 200, detail |-> None, body |-> info]
    /\ UNCHANGED <<app_state, current_trace, step_counter, r_pc, r_trace, r_actions,
                   r_logged, r_failures, r_loaded, r_run, r_status, r_parent,
                   r_session_in, r_response>>

\* create_traced_tool, wrapper: a traced tool called by the run of request r
\* reads the module-level _current_trace as the parent of its span.
TracedToolStart(r) ==
    /\ r_pc[r] = "running"
    /\ r_parent' = [r_parent EXCEPT ![r] = current_trace]
    /\ UNCHANGED <<app_state, current_trace, step_counter, r_pc, r_trace, r_actions,
                   r_logged, r_failures, r_loaded, r_run, r_status, r_session_in,
                   r_response, info_response>>



(***************************************************************************)
(* The calculator on the text of an expression                             *)
(* (tools/operators/math_operator.py).  An expression is a sequence of     *)
(* tokens.  A number is an exact rational <<"num", n, d>> with d > 0: it   *)
(* stands for the int or the float Python computes.  <<"inexact", 0, 0>>   *)
(* is a float that is not followed digit by digit (an irrational power).   *)
(***************************************************************************)
Num(n, d) ==
    LET RECURSIVE GCD(_, _)
        GCD(a, b) == IF b = 0 THEN a ELSE GCD(b, a % b)
        g == GCD(IF n < 0 THEN -n ELSE n, IF d < 0 THEN -d ELSE d)
        s == IF d < 0 THEN -1 ELSE 1
    IN <<"num", (s * n) \div g, (s * d) \div g>>

Inexact == <<"inexact", 0, 0>>
Complex == <<"complex", 0, 0>>

\* The exceptions an evaluation can end with: ZeroDivisionError, or any other
\* (ValueError, TypeError, SyntaxError), which safe_eval treats alike.
ZeroDivisionError == <<"ZeroDivisionError", 0, 0>>
Exception == <<"Exception", 0, 0>>

IsInt(v) == v[1] = "num" /\ v[3] = 1

\* SAFE_OPERATORS[type(node.op)](left, right)
SAFE_OPERATORS(op, a, b) ==
    LET RECURSIVE IntPow(_, _)
        IntPow(x, n) == IF n = 0 THEN 1 ELSE x * IntPow(x, n - 1)
        Floor(v) == v[2] \div v[3]
        Repeat(l, n) ==
            <<"list", [i \in 1..(Len(l) * (IF n > 0 THEN n ELSE 0))
                         |-> l[((i - 1) % Len(l)) + 1]], 0>>
        Pow ==
            IF IsInt(b)
            THEN IF b[2] >= 0 THEN Num(IntPow(a[2], b[2]), IntPow(a[3], b[2]))
                 ELSE IF a[2] = 0 THEN ZeroDivisionError
                 ELSE Num(IntPow(a[3], -b[2]), IntPow(a[2], -b[2]))
            ELSE IF a[2] = 0 THEN (IF b[2] > 0 THEN Num(0, 1) ELSE ZeroDivisionError)
            ELSE IF a = Num(1, 1) THEN Num(1, 1)
            ELSE IF a[2] > 0 THEN Inexact
            ELSE Complex
    IN IF a[1] = "list" \/ b[1] = "list"
       THEN IF op = "+" /\ a[1] = "list" /\ b[1] = "list" THEN <<"list", a[2] \o b[2], 0>>
            ELSE IF op = "*" /\ a[1] = "list" /\ IsInt(b) THEN Repeat(a[2], b[2])
            ELSE IF op = "*" /\ b[1] = "list" /\ IsInt(a) THEN Repeat(b[2], a[2])
            ELSE Exception
       ELSE IF op \in {"/", "//", "%"} /\ b[1] = "num" /\ b[2] = 0 THEN ZeroDivisionError
       ELSE IF a[1] = "complex" \/ b[1] = "complex"
       THEN (IF op \in {"//", "%"} THEN Exception ELSE Complex)
       ELSE IF a[1] = "inexact" \/ b[1] = "inexact" THEN Inexact
       ELSE CASE op = "+" -> Num(a[2] * b[3] + b[2] * a[3], a[3] * b[3])
              [] op = "-" -> Num(a[2] * b[3] - b[2] * a[3], a[3] * b[3])
              [] op = "*" -> Num(a[2] * b[2], a[3] * b[3])
              [] op = "/" -> Num(a[2] * b[3], a[3] * b[2])
              [] op = "//" -> Num(Floor(Num(a[2] * b[3], a[3] * b[2])), 1)
              [] op = "%" ->
                   LET q == Floor(Num(a[2] * b[3], a[3] * b[2]))
                   IN Num(a[2] * b[3] - q * b[2] * a[3], a[3] * b[3])
              [] op = "**" -> Pow

\* operator.neg / operator.pos
SAFE_UNARY(op, a) ==
    IF a[1] = "list" THEN Exception
    ELSE IF a[1] # "num" \/ op = "u+" THEN a
    ELSE Num(-a[2], a[3])

\* SAFE_FUNCTIONS[func_name](*args); whatever the builtin raises is an Exception
SAFE_FUNCTIONS(name, args) ==
    LET Less(x, y) == x[2] * y[3] < y[2] * x[3]
        AllNum(vs) == \A i \in DOMAIN vs : vs[i][1] = "num"
        AllFloat(vs) == \A i \in DOMAIN vs : vs[i][1] \in {"num", "inexact"}
        \* round(x): to the nearest integer, a tie to the even one
        Round(v) ==
            LET f == v[2] \div v[3]
                twice == Num(2 * (v[2] - f * v[3]), v[3])
            IN IF Less(twice, Num(1, 1)) THEN Num(f, 1)
               ELSE IF Less(Num(1, 1), twice) THEN Num(f + 1, 1)
               ELSE IF f % 2 = 0 THEN Num(f, 1) ELSE Num(f + 1, 1)
        \* min / max of a non-empty sequence of numbers, the first winning a tie
        RECURSIVE Extreme(_)
        Extreme(vs) ==
            IF Len(vs) = 1 THEN vs[1]
            ELSE LET rest == Extreme(Tail(vs))
                 IN IF name = "min" THEN (IF Less(rest, vs[1]) THEN rest ELSE vs[1])
                    ELSE (IF Less(vs[1], rest) THEN rest ELSE vs[1])
        RECURSIVE Sum(_)
        Sum(vs) == IF vs = <<>> THEN Num(0, 1)
                   ELSE SAFE_OPERATORS("+", vs[1], Sum(Tail(vs)))
    IN CASE name = "abs" ->
              IF Len(args) # 1 \/ args[1][1] = "list" THEN Exception
              ELSE IF args[1][1] = "num"
              THEN Num(IF args[1][2] < 0 THEN -args[1][2] ELSE args[1][2], args[1][3])
              ELSE Inexact
         [] name \in {"min", "max"} ->
              IF Len(args) = 0 THEN Exception
              ELSE IF Len(args) = 1
              THEN (IF args[1][1] = "list" /\ args[1][2] # <<>> /\ AllNum(args[1][2])
                    THEN Extreme(args[1][2]) ELSE Exception)
              ELSE IF AllNum(args) THEN Extreme(args)
              ELSE IF AllFloat(args) THEN Inexact
              ELSE Exception
         [] name = "round" ->
              IF Len(args) = 1 /\ args[1][1] = "num" THEN Round(args[1])
              ELSE IF Len(args) = 2 /\ IsInt(args[1]) /\ IsInt(args[2]) /\ args[2][2] >= 0
              THEN args[1]
              ELSE IF Len(args) \in {1, 2} /\ args[1][1] \in {"num", "inexact"}
                      /\ (Len(args) = 1 \/ IsInt(args[2]))
              THEN Inexact
              ELSE Exception
         [] name = "sum" ->
              IF Len(args) \in {1, 2} /\ args[1][1] = "list" /\ AllNum(args[1][2])
                 /\ (Len(args) = 1 \/ args[2][1] = "num")
              THEN (IF Len(args) = 1 THEN Sum(args[1][2])
                    ELSE SAFE_OPERATORS("+", Sum(args[1][2]), args[2]))
              ELSE IF Len(args) \in {1, 2} /\ args[1][1] = "list" /\ AllFloat(args[1][2])
                      /\ (Len(args) = 1 \/ args[2][1] \in {"num", "inexact"})
              THEN Inexact
              ELSE Exception

\* The syntax tree of an expression: <<"const", n, 0>>, <<op, left, right>>
\* for a binary operator, <<"u-", operand, 0>>, <<"call", func, args>>,
\* <<"name", id, 0>>, <<"list", items, 0>>, <<"tuple", 0, 0>>.
BinaryOps == {"+", "-", "*", "/", "//", "%", "**"}
FunctionNames == {"abs", "min", "max", "round", "sum"}
Literals == {0, 1, 2}

\* The element of a one-element set.  In Only({F(x) : x \in {e}}) the value e
\* is computed once, however often F uses it.
Only(S) == CHOOSE x \in S : TRUE

RECURSIVE eval_node(_)
\* safe_eval, _eval_node: operands left to right, the first exception ends it
eval_node(node) ==
    LET IsError(v) == v[1] \in {"ZeroDivisionError", "Exception"}
        Each(nodes) == [i \in DOMAIN nodes |-> eval_node(nodes[i])]
        Failed(vs) == {i \in DOMAIN vs : IsError(vs[i])}
    IN CASE node[1] = "const" -> Num(node[2], 1)
         [] node[1] \in BinaryOps ->
              Only({IF IsError(left) THEN left
                    ELSE Only({IF IsError(right) THEN right
                               ELSE SAFE_OPERATORS(node[1], left, right)
                               : right \in {eval_node(node[3])}})
                    : left \in {eval_node(node[2])}})
         [] node[1] \in {"u-", "u+"} ->
              Only({IF IsError(operand) THEN operand ELSE SAFE_UNARY(node[1], operand)
                    : operand \in {eval_node(node[2])}})
         [] node[1] = "call" ->
              IF node[2][1] # "name" \/ node[2][2] \notin FunctionNames THEN Exception
              ELSE Only({IF Failed(args) # {} THEN args[Min(Failed(args))]
                         ELSE SAFE_FUNCTIONS(node[2][2], args)
                         : args \in {Each(node[3])}})
         [] node[1] = "list" ->
              Only({IF Failed(items) # {} THEN items[Min(Failed(items))]
                    ELSE <<"list", items, 0>>
                    : items \in {Each(node[2])}})
         [] OTHER -> Exception

MaxOps == 2

RECURSIVE Exprs(_)
\* The expressions of at most n operators and function calls over the
\* literals: the domain of the calculator.
Exprs(n) ==
    IF n = 0 THEN {<<"const", k, 0>> : k \in Literals}
    ELSE LET Pairs == UNION {Exprs(i) \X Exprs(n - 1 - i) : i \in 0..(n - 1)}
             Name(f) == <<"name", f, 0>>
         IN Exprs(n - 1)
            \cup {<<op, p[1], p[2]>> : op \in BinaryOps, p \in Pairs}
            \cup {<<"u-", a, 0>> : a \in Exprs(n - 1)}
            \cup {<<"call", Name(f), <<a>>>> : f \in {"abs", "round"}, a \in Exprs(n - 1)}
            \cup {<<"call", Name(f), <<p[1], p[2]>>>> : f \in {"min", "max"}, p \in Pairs}
            \cup {<<"call", Name("sum"), <<<<"list", <<p[1], p[2]>>, 0>>>>>> : p \in Pairs}

RECURSIVE unparse(_)
\* The text of an expression, with parentheses only where the grammar needs
\* them: its tokens, which one blank separates.
unparse(node) ==
    LET Prec(t) == CASE t[1] \in {"+", "-"} -> 1
                     [] t[1] \in {"*", "/", "//", "%"} -> 2
                     [] t[1] \in {"u-", "u+"} -> 3
                     [] t[1] = "**" -> 4
                     [] OTHER -> 5
        Paren(t, needed) == IF needed THEN <<"(">> \o unparse(t) \o <<")">> ELSE unparse(t)
        RECURSIVE Commas(_)
        Commas(ts) == IF ts = <<>> THEN <<>>
                      ELSE IF Len(ts) = 1 THEN unparse(ts[1])
                      ELSE unparse(ts[1]) \o <<",">> \o Commas(Tail(ts))
    IN CASE node[1] = "const" ->
              <<CASE node[2] = 0 -> "0" [] node[2] = 1 -> "1" [] node[2] = 2 -> "2"
                  [] node[2] = 3 -> "3">>
         [] node[1] = "name" -> <<node[2]>>
         [] node[1] = "**" ->
              Paren(node[2], Prec(node[2]) < 5) \o <<"**">> \o Paren(node[3], Prec(node[3]) < 3)
         [] node[1] \in BinaryOps \ {"**"} ->
              Paren(node[2], Prec(node[2]) < Prec(node))
                \o <<node[1]>> \o Paren(node[3], Prec(node[3]) <= Prec(node))
         [] node[1] = "u-" -> <<"-">> \o Paren(node[2], Prec(node[2]) < 3)
         [] node[1] = "u+" -> <<"+">> \o Paren(node[2], Prec(node[2]) < 3)
         [] node[1] = "call" -> unparse(node[2]) \o <<"(">> \o Commas(node[3]) \o <<")">>
         [] node[1] = "list" -> <<"[">> \o Commas(node[2]) \o <<"]">>

NumberTokens == {"0", "1", "2"}
NameTokens == FunctionNames \cup {"sqrt"}
SyntaxError == <<"SyntaxError", 0, 0>>

\* ast.parse(expression, mode="eval"): the tree of the text by Python's
\* grammar (sum, term, factor, power, primary, atom), or SyntaxError.  Each
\* rule gives <<tree, position after it, flag>>, with position 0 for an error.
ast_parse(tokens) ==
    LET tok(i) == IF i \in DOMAIN tokens THEN tokens[i] ELSE "<end>"
        Bad == <<SyntaxError, 0, FALSE>>
        RECURSIVE sum(_), sum_rest(_), term(_), term_rest(_), factor(_),
                  power(_), primary_rest(_), atom(_), list(_, _, _)
        sum(i) == Only({IF t[2] = 0 THEN Bad ELSE sum_rest(t) : t \in {term(i)}})
        sum_rest(left) ==
            IF tok(left[2]) \in {"+", "-"}
            THEN Only({IF t[2] = 0 THEN Bad
                       ELSE sum_rest(<<<<tok(left[2]), left[1], t[1]>>, t[2], FALSE>>)
                       : t \in {term(left[2] + 1)}})
            ELSE left
        term(i) == Only({IF f[2] = 0 THEN Bad ELSE term_rest(f) : f \in {factor(i)}})
        term_rest(left) ==
            IF tok(left[2]) \in {"*", "/", "//", "%"}
            THEN Only({IF f[2] = 0 THEN Bad
                       ELSE term_rest(<<<<tok(left[2]), left[1], f[1]>>, f[2], FALSE>>)
                       : f \in {factor(left[2] + 1)}})
            ELSE left
        factor(i) ==
            IF tok(i) \in {"+", "-"}
            THEN Only({IF f[2] = 0 THEN Bad
                       ELSE <<<<IF tok(i) = "-" THEN "u-" ELSE "u+", f[1], 0>>, f[2], FALSE>>
                       : f \in {factor(i + 1)}})
            ELSE power(i)
        power(i) ==
            Only({IF p[2] = 0 THEN Bad
                  ELSE IF tok(p[2]) = "**"
                  THEN Only({IF f[2] = 0 THEN Bad ELSE <<<<"**", p[1], f[1]>>, f[2], FALSE>>
                             : f \in {factor(p[2] + 1)}})
                  ELSE p
                  : p \in {Only({IF a[2] = 0 THEN Bad ELSE primary_rest(a)
                                 : a \in {atom(i)}})}})
        primary_rest(p) ==
            IF tok(p[2]) = "("
            THEN Only({IF args[2] = 0 THEN Bad
                       ELSE primary_rest(<<<<"call", p[1], args[1]>>, args[2], FALSE>>)
                       : args \in {list(p[2] + 1, ")", <<>>)}})
            ELSE p
        atom(i) ==
            CASE tok(i) \in NumberTokens ->
                   <<<<"const", CASE tok(i) = "0" -> 0 [] tok(i) = "1" -> 1 [] tok(i) = "2" -> 2,
                       0>>, i + 1, FALSE>>
              [] tok(i) \in NameTokens -> <<<<"name", tok(i), 0>>, i + 1, FALSE>>
              [] tok(i) = "(" ->
                   Only({IF items[2] = 0 THEN Bad
                         ELSE IF Len(items[1]) = 1 /\ ~items[3]
                         THEN <<items[1][1], items[2], FALSE>>
                         ELSE <<<<"tuple", 0, 0>>, items[2], FALSE>>
                         : items \in {list(i + 1, ")", <<>>)}})
              [] tok(i) = "[" ->
                   Only({IF items[2] = 0 THEN Bad
                         ELSE <<<<"list", items[1], 0>>, items[2], FALSE>>
                         : items \in {list(i + 1, "]", <<>>)}})
              [] OTHER -> Bad
        \* the items up to the closing token; the flag tells whether a comma
        \* came last
        list(i, close, items) ==
            IF tok(i) = close THEN <<items, i + 1, items # <<>>>>
            ELSE Only({IF e[2] = 0 THEN Bad
                       ELSE IF tok(e[2]) = ","
                       THEN list(e[2] + 1, close, Append(items, e[1]))
                       ELSE IF tok(e[2]) = close
                       THEN <<Append(items, e[1]), e[2] + 1, FALSE>>
                       ELSE Bad
                       : e \in {sum(i)}})
    IN Only({IF whole[2] = Len(tokens) + 1 THEN whole[1] ELSE SyntaxError
             : whole \in {sum(1)}})

\* The tokens whose characters all match [0-9+\-*/().\s,a-zA-Z]
AllowedTokens ==
    NumberTokens \cup NameTokens \cup {"+", "-", "*", "/", "//", "**", "(", ")", ",", "."}

MaxJunkLen == 3

\* Texts that need not be expressions: every sequence of at most MaxJunkLen
\* tokens, among them tokens with characters outside the allowed ones.
JunkTokens ==
    NumberTokens \cup {"abs", "sqrt", "+", "-", "*", "/", "//", "%", "**",
                       "(", ")", "[", "]", ",", ".", "$"}

Count(tokens, t) == Cardinality({i \in DOMAIN tokens : tokens[i] = t})

\* validate_math_expression: the cleaned expression, or the ValueError raised
ValidateMathExpression(expression) ==
    IF expression = <<>> THEN Raise("Expression must be a non-empty string")
    ELSE IF \E i \in DOMAIN expression : expression[i] \notin AllowedTokens
    THEN Raise("Expression contains invalid characters")
    ELSE IF Count(expression, "(") # Count(expression, ")")
    THEN Raise("Unbalanced parentheses in expression")
    ELSE Ret(expression)

\* safe_eval: the number, or ZeroDivisionError, or the ValueError every other
\* exception is turned into
SafeEval(expression) ==
    Only({IF result = ZeroDivisionError THEN Raise("ZeroDivisionError")
          ELSE IF result[1] \in {"num", "inexact"} THEN Ret(result)
          ELSE Raise("Invalid mathematical expression:")
          : result \in {Only({IF tree = SyntaxError THEN Exception ELSE eval_node(tree)
                              : tree \in {ast_parse(expression)}})}})

\* str(int(result)) for a whole number, f"{result:.10g}" for another float
formatted_result(result) ==
    IF result[1] = "num" /\ result[3] # 1 THEN <<".10g", result[2], result[3]>> ELSE result

NoValue == <<"none", 0, 0>>
DivisionByZeroMessage ==
    <<"Error: Division by zero is not allowed in mathematical expressions.">>

\* calculate on the text: the string returned, as its parts (f"Error: {str(e)}"
\* is <<"Error:", str(e)>>), and the functions it called
CalculateText(input) ==
    IF ~input.json /\ input.text = <<>>
    THEN [message |-> <<"Error: No expression provided.">>, value |-> NoValue,
          called |-> {}]
    ELSE Only({
        IF clean.raised
        THEN [message |-> <<"Error:", clean.value>>, value |-> NoValue,
              called |-> {"validate_math_expression"}]
        ELSE Only({
            IF ~result.raised
            THEN [message |-> <<"The calculation result is">>,
                  value |-> formatted_result(result.value),
                  called |-> {"validate_math_expression", "safe_eval"}]
            ELSE [message |-> IF result.value = "ZeroDivisionError"
                              THEN DivisionByZeroMessage
                              ELSE <<"Error:", result.value>>,
                  value |-> NoValue,
                  called |-> {"validate_math_expression", "safe_eval"}]
            : result \in {SafeEval(clean.value)}})
        : clean \in {ValidateMathExpression(input.text)}})

CalcIdle ==
    /\ c_pc = "idle"
    /\ c_input = [json |-> FALSE, text |-> <<>>]
    /\ c_expected = NoValue
    /\ c_result = [message |-> <<>>, value |-> NoValue, called |-> {}]

\* One call of the calculate tool: on an expression of the domain, whose
\* value by its syntax tree is kept for comparison, or on any short text.
CalcInit ==
    /\ c_pc = "called"
    /\ c_result = [message |-> <<>>, value |-> NoValue, called |-> {}]
    /\ \/ \E t \in Exprs(MaxOps), j \in BOOLEAN :
            /\ c_input = [json |-> j, text |-> unparse(t)]
            /\ c_expected = eval_node(t)
       \/ \E text \in SeqsUpTo(JunkTokens, MaxJunkLen), j \in BOOLEAN :
            /\ c_input = [json |-> j, text |-> text]
            /\ c_expected = NoValue

Calculate ==
    /\ c_pc = "called"
    /\ c_pc' = "returned"
    /\ c_result' = CalculateText(c_input)
    /\ UNCHANGED <<c_input, c_expected>>


(***************************************************************************)
(* Specifications.  Each one drives one of the machines and leaves the      *)
(* variables of the others at rest.                                        *)
\* No tool function is being called on its own.
ToolIdle ==
    /\ t_pc = "idle"
    /\ t_call = <<>>
    /\ t_state = <<>>
    /\ t_result = <<>>

(***************************************************************************)
Init == LoopInit /\ DelegationIdle /\ InvokeInit /\ CalcIdle /\ ToolIdle

Next ==
    \/ CallLLM /\ UNCHANGED <<delegVars, invokeVars, calcVars, toolVars>>
    \/ LLMFails /\ UNCHANGED <<delegVars, invokeVars, calcVars, toolVars>>
    \/ AgentFinish /\ UNCHANGED <<delegVars, invokeVars, calcVars, toolVars>>
    \/ ParseErrorStep /\ UNCHANGED <<delegVars, invokeVars, calcVars, toolVars>>
    \/ InvalidToolStep /\ UNCHANGED <<delegVars, invokeVars, calcVars, toolVars>>
    \/ ToolStep /\ UNCHANGED <<delegVars, invokeVars, calcVars, toolVars>>
    \/ BudgetElapses /\ UNCHANGED <<delegVars, invokeVars, calcVars, toolVars>>

Spec == Init /\ [][Next]_vars

InitDelegation == LoopIdle /\ DelegationInit /\ InvokeInit /\ CalcIdle /\ ToolIdle

NextDelegation ==
    \/ StartSpan /\ UNCHANGED <<loopVars, invokeVars, calcVars, toolVars>>
    \/ TracedCreateAgent /\ UNCHANGED <<loopVars, invokeVars, calcVars, toolVars>>
    \/ TracedInvoke /\ UNCHANGED <<loopVars, invokeVars, calcVars, toolVars>>
    \/ UpdateSpan /\ UNCHANGED <<loopVars, invokeVars, calcVars, toolVars>>
    \/ FallbackCreateAgent /\ UNCHANGED <<loopVars, invokeVars, calcVars, toolVars>>
    \/ FallbackInvoke /\ UNCHANGED <<loopVars, invokeVars, calcVars, toolVars>>
    \/ Delegate /\ UNCHANGED <<loopVars, invokeVars, calcVars, toolVars>>

SpecDelegation == InitDelegation /\ [][NextDelegation]_vars

InitInvoke == LoopIdle /\ DelegationIdle /\ InvokeInit /\ CalcIdle /\ ToolIdle

NextInvoke ==
    \/ lifespan /\ UNCHANGED <<loopVars, delegVars, calcVars, toolVars>>
    \/ \E r \in Requests : InvokeBegin(r) /\ UNCHANGED <<loopVars, delegVars, calcVars, toolVars>>
    \/ \E r \in Requests : ActionLoad(r) /\ UNCHANGED <<loopVars, delegVars, calcVars, toolVars>>
    \/ \E r \in Requests : ActionStore(r) /\ UNCHANGED <<loopVars, delegVars, calcVars, toolVars>>
    \/ \E r \in Requests : ActionLog(r) /\ UNCHANGED <<loopVars, delegVars, calcVars, toolVars>>
    \/ \E r \in Requests : RunEnd(r) /\ UNCHANGED <<loopVars, delegVars, calcVars, toolVars>>
    \/ \E r \in Requests : InvokeFinish(r) /\ UNCHANGED <<loopVars, delegVars, calcVars, toolVars>>
    \/ \E r \in Requests : TracedToolStart(r) /\ UNCHANGED <<loopVars, delegVars, calcVars, toolVars>>

SpecInvoke == InitInvoke /\ [][NextInvoke]_vars

\* One client: a POST /invoke request, with or without a session_id, and
\* GET /agent/info.
Client == "A"

InitHttp ==
    /\ LoopIdle
    /\ DelegationIdle
    /\ InvokeIdle
    /\ CalcIdle
    /\ ToolIdle
    /\ \E s \in SessionIds :
         r_session_in = [r \in Requests |-> IF r = Client THEN s ELSE None]

NextHttp ==
    \/ lifespan /\ UNCHANGED <<loopVars, delegVars, calcVars, toolVars>>
    \/ InvokeBegin(Client) /\ UNCHANGED <<loopVars, delegVars, calcVars, toolVars>>
    \/ ActionLoad(Client) /\ UNCHANGED <<loopVars, delegVars, calcVars, toolVars>>
    \/ ActionStore(Client) /\ UNCHANGED <<loopVars, delegVars, calcVars, toolVars>>
    \/ ActionLog(Client) /\ UNCHANGED <<loopVars, delegVars, calcVars, toolVars>>
    \/ RunEnd(Client) /\ UNCHANGED <<loopVars, delegVars, calcVars, toolVars>>
    \/ InvokeFinish(Client) /\ UNCHANGED <<loopVars, delegVars, calcVars, toolVars>>
    \/ get_agent_information /\ UNCHANGED <<loopVars, delegVars, calcVars, toolVars>>

SpecHttp == InitHttp /\ [][NextHttp]_vars

InitCalc == LoopIdle /\ DelegationIdle /\ InvokeInit /\ CalcInit /\ ToolIdle

NextCalc == Calculate /\ UNCHANGED <<loopVars, delegVars, invokeVars, toolVars>>

SpecCalc == InitCalc /\ [][NextCalc]_vars


(***************************************************************************)
(* Claims about one loop run (specification Spec)                          *)
(***************************************************************************)
\* A completion with exactly one "Final Answer:" marker and no "Action:" marker
OneAnswerNoAction(text) ==
    /\ Cardinality(Positions(text, FA)) = 1
    /\ Positions(text, ACT) = {}

\* The tokens that follow the one "Final Answer:" marker
AfterMarker(text) == SubSeq(text, Min(Positions(text, FA)) + 1, Len(text))

\* out is s without its leading and trailing whitespace
IsStripped(out, s) ==
    /\ out = <<>> \/ (out[1] # SP /\ out[Len(out)] # SP)
    /\ \E i \in 0..Len(s) :
         /\ i + Len(out) <= Len(s)
         /\ SubSeq(s, i + 1, i + Len(out)) = out
         /\ \A k \in 1..Len(s) : (k <= i \/ k > i + Len(out)) => s[k] = SP

\* The turn in progress ends the run with a final answer and invokes no tool.
EndsWithFinalAnswer ==
    /\ pc' = "done"
    /\ terminated' = "final_answer"
    /\ tool_calls' = tool_calls
    /\ llm_calls' = llm_calls

\* C1 as stated: in any loop run, a completion with exactly one "Final Answer:"
\* marker and no "Action:" marker ends the run on that turn, without a tool
\* invocation, with reason final_answer and final_output equal to the text
\* following the marker.
C1_FinalOutputIsTextAfterMarker ==
    [][(pc = "act" /\ pc' # "act" /\ OneAnswerNoAction(llm_output))
         => (EndsWithFinalAnswer /\ final_output' = AfterMarker(llm_output))]_vars

\* C1, amended: in any loop run, a completion with exactly one "Final Answer:"
\* marker and no "Action:" marker ends the run on that turn, without a tool
\* invocation, with reason final_answer and final_output equal to the text
\* following the marker with its leading and trailing whitespace removed.
C1_FinalOutputIsStrippedText ==
    [][(pc = "act" /\ pc' # "act" /\ OneAnswerNoAction(llm_output))
         => (EndsWithFinalAnswer /\ IsStripped(final_output', AfterMarker(llm_output)))]_vars

\* A run ended by a final answer whose text is a word (the whitespace around
\* it, if any, is gone) after at least one earlier turn.
C1_Witness ==
    /\ pc = "done"
    /\ terminated = "final_answer"
    /\ Len(final_output) = 1
    /\ final_output[1] \notin Markers \cup {SP}
    /\ tool_calls = 0
    /\ iterations > 0

\* An Action / Action Input pair: "Action:" with "Action Input:" after it
HasActionPair(text) ==
    \E i \in DOMAIN text, j \in DOMAIN text : i < j /\ text[i] = ACT /\ text[j] = INP

\* C2: a completion holding both an Action / Action Input pair and a
\* "Final Answer:" marker is a parse error: no tool is invoked, the run does not
\* end with a final answer, the step recorded is the parser's complaint about
\* both being present, and the turn counts toward the iteration budget.
C2_BothIsParseError ==
    [][(pc = "act" /\ pc' # "act" /\ HasActionPair(llm_output) /\ FA \in Range(llm_output))
         => /\ tool_calls' = tool_calls
            /\ terminated' \in {"running", "max_iterations", "max_time"}
            /\ terminated' # "running" => final_output' = <<StoppedMessage>>
            /\ iterations' = iterations + 1
            /\ n_steps' = n_steps + 1
            /\ last_step'.tool = ExceptionTool
            /\ last_step'.log = BothMessage]_vars

\* The loop goes on after a turn that held both an action and a final answer.
C2_Witness ==
    /\ last_step.log = BothMessage
    /\ pc = "llm"
    /\ iterations > 0
    /\ tool_calls = 0

\* C3 as stated: a loop with max_iterations = N that gets malformed output on
\* every turn ends after exactly N iterations (N completion calls) with reason
\* max_iterations, never earlier and never later.
C3_ExactlyNIterations ==
    (pc = "done" /\ all_malformed /\ terminated # "raised")
      => /\ terminated = "max_iterations"
         /\ iterations = max_iterations(kind)
         /\ llm_calls = max_iterations(kind)

\* C3, amended: a loop with max_iterations = N that gets malformed output on
\* every turn never makes more than N iterations or N completion calls; it ends
\* with the stop response, after exactly N iterations with reason
\* max_iterations, unless max_execution_time elapses first, in which case it
\* ends after fewer.
C3_NIterationsUnlessTimeIsUp ==
    (all_malformed /\ terminated # "raised")
      => /\ iterations <= max_iterations(kind)
         /\ llm_calls <= max_iterations(kind)
         /\ pc # "done" => terminated = "running" /\ iterations < max_iterations(kind)
         /\ pc = "done" =>
              /\ final_output = <<StoppedMessage>>
              /\ llm_calls = iterations
              /\ \/ terminated = "max_iterations" /\ iterations = max_iterations(kind)
                 \/ terminated = "max_time" /\ iterations < max_iterations(kind)

\* The orchestrator, fed malformed output only, stopped at its tenth iteration.
C3_Witness ==
    /\ kind = "orchestrator"
    /\ pc = "done"
    /\ all_malformed
    /\ terminated = "max_iterations"
    /\ iterations = OrchestratorMaxIterations
    /\ llm_calls = OrchestratorMaxIterations

\* The completion being acted on names a registered tool.
NamesRegisteredTool ==
    /\ pc = "act"
    /\ pc' # "act"
    /\ ParseReAct(llm_output).type = "action"
    /\ ToolName(ParseReAct(llm_output).tool) \in ToolsOf(kind)

\* The step just taken leaves the loop running, or stopped by its budget.
ContinuesUnderBudget ==
    /\ iterations' = iterations + 1
    /\ n_steps' = n_steps + 1
    /\ \/ pc' = "llm" /\ terminated' = "running" /\ iterations' < max_iterations(kind)
       \/ pc' = "done" /\ terminated' = "max_time"
       \/ pc' = "done" /\ terminated' = "max_iterations"
                       /\ iterations' = max_iterations(kind)

C5_UnknownToolIsObservation ==
    [][(/\ pc = "act"
        /\ pc' # "act"
        /\ ParseReAct(llm_output).type = "action"
        /\ ToolName(ParseReAct(llm_output).tool) \notin ToolsOf(kind))
         => /\ tool_calls' = tool_calls
            /\ last_step'.tool = ToolName(ParseReAct(llm_output).tool)
            /\ last_step'.obs = InvalidToolMessage
            /\ ContinuesUnderBudget]_vars

\* The orchestrator goes on after naming datetime_operator, which its registry
\* does not hold.
C5_Witness ==
    /\ kind = "orchestrator"
    /\ last_step.tool = "datetime_operator"
    /\ last_step.obs = InvalidToolMessage
    /\ pc = "llm"
    /\ tool_calls = 0


(***************************************************************************)
(* Claims about one delegation call (specification SpecDelegation)         *)
(***************************************************************************)
\* C6: whatever fails inside a delegation call (the span, building the
\* operator, the completion service, the span update), the call returns a
\* string and raises nothing: the output of the last operator run when that run
\* returned, the bridge's formatted error message otherwise.
C6_DelegationReturnsString ==
    /\ ~d_result.raised
    /\ d_pc = "done" =>
         \/ /\ d_failures \cap {"fallback_agent_create", "fallback_completion"} = {}
            /\ Len(d_runs) > 0
            /\ d_result.value = d_runs[Len(d_runs)]
         \/ /\ d_failures \cap {"fallback_agent_create", "fallback_completion"} # {}
            /\ d_result.value = error_msg(d_operator)

\* A call in which the completion service failed in both runs came back with
\* the formatted error message.
C6_Witness ==
    /\ d_pc = "done"
    /\ {"completion", "fallback_completion"} \subseteq d_failures
    /\ d_result = Ret(error_msg(d_operator))

\* C7: a completion-service failure during an operator run is not retried:
\* within one delegation call the operator loop is started at most once, and
\* the failure is what the caller gets.
C7_CompletionFailureNotRetried ==
    "completion" \in d_failures =>
        /\ d_started <= 1
        /\ d_pc = "done" => d_result.value = error_msg(d_operator)

\* C8: when the only failures of a delegation call are failures to create or
\* to update the operator span, the operator loop is run exactly once and the
\* call returns that run's output.
C8_SpanFailureKeepsResult ==
    (d_pc = "done" /\ d_failures # {} /\ d_failures \subseteq {"span_create", "span_update"})
      => /\ d_started = 1
         /\ Len(d_runs) = 1
         /\ d_result = Ret(d_runs[1])

(***************************************************************************)
(* Claims about POST /invoke (specification SpecInvoke)                    *)
(***************************************************************************)
\* C9: tracing failures never change the HTTP outcome: a request whose
\* orchestrator run succeeded is answered 200, and a request that found the
\* agent uninitialised is answered 503.
C9_TracingNeverChangesStatus ==
    \A r \in Requests :
        r_pc[r] = "responded" =>
            /\ r_run[r] = "succeeded" => r_status[r] = 200
            /\ r_run[r] = "uninitialised" => r_status[r] = 503

\* C10: requests that run concurrently share no mutable state: as long as no
\* run has raised, the step number the callback logs for a request's action is
\* the number of actions of that request's own run, and a request whose run
\* succeeded without a tracing failure is answered 200.
C10_NoStateSharedAcrossRequests ==
    (\A q \in Requests : r_run[q] # "raised") =>
        \A r \in Requests :
            /\ r_logged[r] = r_actions[r]
            /\ (r_pc[r] = "responded" /\ r_run[r] = "succeeded" /\ r_failures[r] = {})
                 => r_status[r] = 200

\* C11: a traced tool that runs for a request attaches its span to that
\* request's trace only: the parent trace its wrapper read is the trace of the
\* request itself, never the trace of another request and never None while the
\* request has a trace.
C11_ToolSpanUnderOwnTrace ==
    \A r \in Requests :
        r_parent[r] # Unread => r_parent[r] = r_trace[r]

\* C12: the orchestrator's registry holds the weather, math and datetime
\* operators: an Action that names datetime_operator names a known tool, and
\* the step it produces is a delegation, never the invalid-tool notice.
C12_DatetimeOperatorIsRegistered ==
    kind = "orchestrator" =>
        /\ (/\ pc = "act"
            /\ ParseReAct(llm_output).type = "action"
            /\ ToolName(ParseReAct(llm_output).tool) = "datetime_operator")
              => "datetime_operator" \in ToolsOf(kind)
        /\ last_step.tool = "datetime_operator" => last_step.obs # InvalidToolMessage

\* C13: every delegation builds a new operator loop whose transcript starts
\* empty: each step in the transcript of an operator run was taken by that run
\* (same delegation call, same executor), the executor of a run was built
\* during the run's own delegation call, the only input of a run is the query
\* string of its call, and what the call hands back is a response string.
C13_DelegationStartsWithEmptyTranscript ==
    /\ \A j \in DOMAIN d_transcripts :
         LET run == d_transcripts[j]
         IN /\ \A i \in DOMAIN run.steps :
                 /\ run.steps[i].call = run.call
                 /\ run.steps[i].executor = run.executor
            /\ Len(run.steps) <= MaxSteps
            /\ \A k \in DOMAIN d_transcripts :
                 (k # j) => d_transcripts[k].executor # run.executor
            /\ run.call = d_call => run.input = d_query
    /\ d_pc = "done" => d_result.value \in RunOutputs \cup {error_msg(d_operator)}

\* A later delegation call ran an operator loop that took steps, after an
\* earlier call's loop had taken steps of its own.
C13_Witness ==
    /\ d_pc = "done"
    /\ d_call = 2
    /\ \E j, k \in DOMAIN d_transcripts :
         /\ j < k
         /\ d_transcripts[j].call = 1
         /\ d_transcripts[k].call = 2
         /\ Len(d_transcripts[j].steps) > 0
         /\ Len(d_transcripts[k].steps) > 0

C15_FailureDetailOnlyInDebug ==
    \A r \in Requests :
        (r_pc[r] = "responded" /\ r_run[r] = "raised")
          => /\ r_status[r] = 500
             /\ r_response[r].exception_text
                  => app_state.settings.log_level = "DEBUG"

\* C16: GET /agent/info answers 503 when the orchestrator executor is not
\* initialised.
C16_InfoUninitialisedIs503 ==
    [][(info_response' # info_response /\ app_state.agent_executor = None)
         => info_response'.status = 503]_vars

\* C17 as stated: a 200 response carries a request_id and a session_id, the
\* session_id being the one of the request body whenever the body has one
\* (whatever string it is), and a fresh non-empty identifier otherwise.
C17_SessionIdEchoedWheneverSupplied ==
    \A r \in Requests :
        r_status[r] = 200 =>
            /\ r_response[r].request_id \notin {None, ""}
            /\ r_response[r].session_id \notin {None, ""}
            /\ r_session_in[r] # None => r_response[r].session_id = r_session_in[r]
            /\ r_session_in[r] = None => r_response[r].session_id = uuid4(r, "session")

\* C17: a 200 response carries a request_id and a session_id, the session_id
\* being the one of the request body when that is a non-empty string, and a
\* fresh non-empty identifier when the body has none or an empty one.
C17_SessionIdEchoedWhenNonEmpty ==
    \A r \in Requests :
        r_status[r] = 200 =>
            /\ r_response[r].request_id = uuid4(r, "request")
            /\ r_response[r].request_id \notin {None, ""}
            /\ r_response[r].session_id \notin {None, ""}
            /\ r_session_in[r] \notin {None, ""}
                 => r_response[r].session_id = r_session_in[r]
            /\ r_session_in[r] \in {None, ""}
                 => /\ r_response[r].session_id = uuid4(r, "session")
                    /\ r_response[r].session_id \notin SessionIds

\* A request with an empty session_id was answered 200 with a fresh one.
C17_Witness ==
    /\ r_status[Client] = 200
    /\ r_session_in[Client] = ""
    /\ r_response[Client].session_id = uuid4(Client, "session")

(***************************************************************************)
(* Claims about the calculate tool (specification SpecCalc)                *)
(***************************************************************************)
\* C18: for every expression built from the operators + - * / // % **,
\* parentheses and the functions abs, min, max, round, sum (of a literal list)
\* over numeric literals, whose value is a number, calculate returns the
\* success string with that value, never an error string.
C18_DomainExpressionsEvaluate ==
    (c_pc = "returned" /\ ~c_input.json /\ c_expected[1] \in {"num", "inexact"})
      => /\ c_result.message = <<"The calculation result is">>
         /\ c_result.value = formatted_result(c_expected)

\* C19: for every expression of that kind whose evaluation divides by zero,
\* calculate returns the division-by-zero string, and it returns that string
\* for no other expression.
C19_DivisionByZeroIsReported ==
    (c_pc = "returned" /\ ~c_input.json /\ c_expected # NoValue)
      => (c_expected = ZeroDivisionError <=> c_result.message = DivisionByZeroMessage)

\* C20: an input holding a character outside the allowed ones (the braces,
\* quotes and colon of a JSON wrapper among them), or whose parentheses are
\* not balanced, is rejected by the validation and never reaches safe_eval.
C20_InvalidInputNeverEvaluated ==
    LET RECURSIVE Balanced(_, _)
        Balanced(tokens, depth) ==
            IF tokens = <<>> THEN depth = 0
            ELSE IF Head(tokens) = "(" THEN Balanced(Tail(tokens), depth + 1)
            ELSE IF Head(tokens) = ")"
            THEN depth > 0 /\ Balanced(Tail(tokens), depth - 1)
            ELSE Balanced(Tail(tokens), depth)
    IN (/\ c_pc = "returned"
        /\ \/ c_input.json
           \/ \E i \in DOMAIN c_input.text : c_input.text[i] \notin AllowedTokens
           \/ ~Balanced(c_input.text, 0))
         => /\ "safe_eval" \notin c_result.called
            /\ c_result.message \in
                 {<<"Error:", "Expression contains invalid characters">>,
                  <<"Error:", "Unbalanced parentheses in expression">>}

(***************************************************************************)
(* tools/operators/weather_operator.py, one call of a weather tool.        *)
(* A location is a text of tokens (a place word, a number, a comma,        *)
(* whitespace), raw or wrapped as {"location": ...}, or no string at all.  *)
(* The two services answer as they please; every request the call sends    *)
(* is recorded with the answer it got.                                     *)
(***************************************************************************)
MaxLocationLen == 4

LocationTokens == {"London", "UK", "1", ",", SP}

Locations ==
    {[type |-> "str", json |-> j, text |-> t] :
        j \in BOOLEAN, t \in SeqsUpTo(LocationTokens, MaxLocationLen)}
      \cup {[type |-> "NoneType", json |-> FALSE, text |-> <<>>]}

\* Values a caller can pass as days: integers around the accepted range, and
\* values that are no integers.
WeatherDays ==
    {[type |-> "int", value |-> v] : v \in -1 .. 17}
      \cup {[type |-> "str", value |-> 7], [type |-> "float", value |-> 7],
            [type |-> "NoneType", value |-> 0]}

\* requests.get(GEOCODING_API_URL): a result list, an empty one, a body with
\* no "results" field, or an exception (HTTPError is a RequestException).
GeocodingAnswers ==
    {"results", "empty_results", "no_results_field", "RequestException", "HTTPError"}

\* requests.get(FORECAST_API_URL): the data, a RequestException, or a body
\* that is no JSON.
ForecastAnswers == {"ok", "RequestException", "HTTPError", "ValueError"}

RequestExceptions == {"RequestException", "HTTPError"}

\* geocode_location with the results check left out: the first result is
\* taken whenever the service answered.
geocode_first_result(answer) ==
    IF answer \notin RequestExceptions THEN "location_info" ELSE None

\* geocode_location: the first result, None when there is none, and None as
\* well when the request raised (except Exception: return None).
GeocodeLocation(answer) ==
    IF answer = "results" THEN "location_info" ELSE None

\* float(s.strip()) succeeds
IsFloat(s) == Len(Strip(s)) = 1 /\ Strip(s)[1] \in NumberTokens

\* The days check with its lower limit one too low.
valid_days_from_zero(days) ==
    days.type = "int" /\ days.value >= 0 /\ days.value <= 16

\* not (not isinstance(days, int) or days < 1 or days > 16)
ValidDays(days) ==
    days.type = "int" /\ days.value >= 1 /\ days.value <= 16

\* The location handling both tools share: the argument check, the JSON
\* unwrapping, strip, then coordinates when the text holds a comma and
\* geocoding otherwise.  Gives the error to return (or <<>>), the place
\* found and the requests sent.
ResolveLocation(location, geo) ==
    IF location.type # "str" \/ (~location.json /\ location.text = <<>>)
    THEN [error |-> <<"Error:", "Please provide a valid location name or coordinates.">>,
          name |-> None, requests |-> <<>>]
    ELSE LET actual_location == Strip(location.text)
             comma == Positions(actual_location, ",")
         IN IF comma # {}
            THEN LET lat_str == SubSeq(actual_location, 1, Min(comma) - 1)
                     lon_str == SubSeq(actual_location, Min(comma) + 1,
                                       Len(actual_location))
                 IN IF IsFloat(lat_str) /\ IsFloat(lon_str)
                    THEN [error |-> <<>>, name |-> "Coordinates", requests |-> <<>>]
                    ELSE [error |-> <<"Error:", "Invalid coordinate format.">>,
                          name |-> None, requests |-> <<>>]
            ELSE LET asked == <<[to |-> "geocoding", forecast_days |-> 0,
                                 answer |-> geo]>>
                 IN IF GeocodeLocation(geo) = None
                    THEN [error |-> <<"Error:", "Could not find coordinates">>,
                          name |-> None, requests |-> asked]
                    ELSE [error |-> <<>>, name |-> "geocoded name",
                          requests |-> asked]

\* The forecast request and what is made of its answer: the formatted text,
\* or the message of the except clause that catches what it raised.
FetchWeather(loc, forecast_days, fc, ok_text, network_text, unexpected_text) ==
    [message |->
        IF fc = "ok" THEN ok_text
        ELSE IF fc \in RequestExceptions THEN network_text
        ELSE unexpected_text,
     requests |-> Append(loc.requests,
                         [to |-> "forecast", forecast_days |-> forecast_days,
                          answer |-> fc])]

GetCurrentWeatherText(location, include_forecast, geo, fc) ==
    LET loc == ResolveLocation(location, geo)
    IN IF loc.error # <<>> THEN [message |-> loc.error, requests |-> loc.requests]
       ELSE FetchWeather(loc, IF include_forecast THEN 7 ELSE 0, fc,
                <<"Weather information for", loc.name, "Temperature:">>,
                <<"Error fetching weather data:", "Network error">>,
                <<"Error:", "An unexpected error occurred while fetching weather data.">>)

GetWeatherForecastText(location, days, geo, fc) ==
    IF ~ValidDays(days)
    THEN [message |-> <<"Error:", "Number of days must be between 1 and 16.">>,
          requests |-> <<>>]
    ELSE LET loc == ResolveLocation(location, geo)
         IN IF loc.error # <<>>
            THEN [message |-> loc.error, requests |-> loc.requests]
            ELSE FetchWeather(loc, days.value, fc,
                     <<"Weather forecast for", loc.name, "Temperature:">>,
                     <<"Error fetching weather forecast:", "Network error">>,
                     <<"Error:", "An unexpected error occurred while fetching weather forecast.">>)

WeatherInit ==
    /\ t_pc = "called"
    /\ t_call \in
         {[tool |-> "get_current_weather", location |-> l, include_forecast |-> f,
           days |-> [type |-> "int", value |-> 7]] :
              l \in Locations, f \in BOOLEAN}
           \cup {[tool |-> "get_weather_forecast", location |-> l,
                  include_forecast |-> FALSE, days |-> d] :
                    l \in Locations, d \in WeatherDays}
    /\ t_state = <<>>
    /\ t_result = <<>>

GetCurrentWeather ==
    /\ t_pc = "called"
    /\ t_call.tool = "get_current_weather"
    /\ \E geo \in GeocodingAnswers, fc \in ForecastAnswers :
         t_result' = GetCurrentWeatherText(t_call.location, t_call.include_forecast,
                                           geo, fc)
    /\ t_pc' = "returned"
    /\ UNCHANGED <<t_call, t_state>>

GetWeatherForecast ==
    /\ t_pc = "called"
    /\ t_call.tool = "get_weather_forecast"
    /\ \E geo \in GeocodingAnswers, fc \in ForecastAnswers :
         t_result' = GetWeatherForecastText(t_call.location, t_call.days, geo, fc)
    /\ t_pc' = "returned"
    /\ UNCHANGED <<t_call, t_state>>

InitWeather == LoopIdle /\ DelegationIdle /\ InvokeInit /\ CalcIdle /\ WeatherInit

NextWeather ==
    \/ GetCurrentWeather /\ UNCHANGED <<loopVars, delegVars, invokeVars, calcVars>>
    \/ GetWeatherForecast /\ UNCHANGED <<loopVars, delegVars, invokeVars, calcVars>>

SpecWeather == InitWeather /\ [][NextWeather]_vars

(***************************************************************************)
(* Claims about the weather tools (specification SpecWeather)              *)
(***************************************************************************)
\* The call at hand has returned from one of the two weather lookups.
WeatherReturned ==
    t_pc = "returned" /\ t_call.tool \in {"get_current_weather", "get_weather_forecast"}

\* C21: when the geocoding service answers a place name with an empty result
\* list or with no results field, either lookup returns an error string
\* holding "Could not find coordinates" and sends no forecast request.
C21_UnresolvedNameIsReported ==
    (/\ WeatherReturned
     /\ \E i \in DOMAIN t_result.requests :
          /\ t_result.requests[i].to = "geocoding"
          /\ t_result.requests[i].answer \in {"empty_results", "no_results_field"})
      => /\ t_result.message = <<"Error:", "Could not find coordinates">>
         /\ \A i \in DOMAIN t_result.requests : t_result.requests[i].to # "forecast"

C21_Witness ==
    /\ WeatherReturned
    /\ t_call.tool = "get_weather_forecast"
    /\ t_call.location.text = <<"London">>
    /\ Len(t_result.requests) = 1
    /\ t_result.requests[1].answer = "no_results_field"
    /\ t_result.message = <<"Error:", "Could not find coordinates">>

\* C22: when the geocoding request or the forecast request of a lookup fails
\* with a network error, the string returned holds "Network error".
C22_NetworkErrorIsReported ==
    (/\ WeatherReturned
     /\ \E i \in DOMAIN t_result.requests :
          t_result.requests[i].answer = "RequestException")
      => \E j \in DOMAIN t_result.message : t_result.message[j] = "Network error"

\* C23: get_current_weather takes "London, UK" (a place, a comma, a country)
\* as a place name: it asks the geocoding service, it does not return the
\* coordinate-format error, and when both services answer the text returned
\* holds "Temperature:".
C23_PlaceWithCountryIsGeocoded ==
    (/\ WeatherReturned
     /\ t_call.tool = "get_current_weather"
     /\ t_call.location = [type |-> "str", json |-> FALSE,
                           text |-> <<"London", ",", SP, "UK">>])
      => /\ t_result.message # <<"Error:", "Invalid coordinate format.">>
         /\ t_result.requests # <<>>
         /\ t_result.requests[1].to = "geocoding"
         /\ (\A i \in DOMAIN t_result.requests :
                t_result.requests[i].answer \in {"results", "ok"})
              => \E j \in DOMAIN t_result.message :
                    t_result.message[j] = "Temperature:"

\* C24: get_weather_forecast answers every days that is not an integer in
\* 1..16 with the "between 1 and 16" error and sends no request; for an
\* integer in 1..16 every forecast request carries forecast_days = days, and
\* it is sent whenever the location resolves.
C24_DaysOutsideRangeRejected ==
    (t_pc = "returned" /\ t_call.tool = "get_weather_forecast")
      => LET days == t_call.days
             in_range == days.type = "int" /\ days.value \in 1 .. 16
         IN /\ ~in_range =>
                 /\ t_result.message =
                      <<"Error:", "Number of days must be between 1 and 16.">>
                 /\ t_result.requests = <<>>
            /\ in_range =>
                 /\ t_result.message #
                      <<"Error:", "Number of days must be between 1 and 16.">>
                 /\ \A i \in DOMAIN t_result.requests :
                      t_result.requests[i].to = "forecast"
                        => t_result.requests[i].forecast_days = days.value
                 /\ (\/ t_call.location.text = <<"1", ",", "1">>
                     \/ /\ t_call.location.text = <<"London">>
                        /\ t_result.requests # <<>>
                        /\ t_result.requests[1].answer = "results")
                      => \E i \in DOMAIN t_result.requests :
                            t_result.requests[i].to = "forecast"

C24_Witness ==
    /\ t_pc = "returned"
    /\ t_call.tool = "get_weather_forecast"
    /\ t_call.days = [type |-> "int", value |-> 17]
    /\ t_call.location.text = <<"London">>
    /\ t_result.message = <<"Error:", "Number of days must be between 1 and 16.">>
    /\ t_result.requests = <<>>

(***************************************************************************)
(* The read-only tools, called more than once: calculate                   *)
(* (tools/operators/math_operator.py), check_leap_year, validate_date and  *)
(* get_weekday (tools/operators/datetime_operator.py), and the helper      *)
(* parse_json_input (shared/input_utils.py).  An input is a payload text,  *)
(* raw or inside a JSON-like object; what a call leaves behind is its log  *)
(* line.                                                                   *)
(***************************************************************************)
MaxCalls == 3

DQ == "\""
SQ == "'"

ReadOnlyTools ==
    {"calculate", "check_leap_year", "validate_date", "get_weekday", "parse_json_input"}

\* The field each function looks for in a JSON input.
ExpectedField(tool) ==
    CASE tool = "calculate" -> "expression"
      [] tool = "check_leap_year" -> "year"
      [] OTHER -> "date"

Payloads(tool) ==
    IF tool = "calculate" THEN {<<"1", "+", "1">>, <<"1", "/", "0">>}
    ELSE {<<"2020">>, <<SP, "2020">>}

\* The inputs a caller can pass: the payload itself (keys = <<>>), or an
\* object with the given keys, written with double or single quotes, with or
\* without whitespace after the brace, closed or cut off before the brace.
ToolInputs(tool) ==
    {[keys |-> k, quote |-> q, space |-> s, well_formed |-> w, payload |-> p] :
        k \in {<<ExpectedField(tool)>>, <<"other">>, <<"other", ExpectedField(tool)>>},
        q \in {DQ, SQ}, s \in BOOLEAN, w \in BOOLEAN, p \in Payloads(tool)}
      \cup {[keys |-> <<>>, quote |-> DQ, space |-> FALSE, well_formed |-> TRUE,
             payload |-> p] : p \in Payloads(tool)}

\* The characters of an input, token by token.
Render(input) ==
    LET q == input.quote
        member(k) == IF k = "other" THEN <<q, k, q, ":", "1">>
                     ELSE <<q, k, q, ":", q>> \o input.payload \o <<q>>
        RECURSIVE members(_)
        members(keys) ==
            IF Len(keys) = 1 THEN member(keys[1])
            ELSE member(keys[1]) \o <<",">> \o members(Tail(keys))
    IN IF input.keys = <<>> THEN input.payload
       ELSE <<"{">> \o (IF input.space THEN <<SP>> ELSE <<>>) \o members(input.keys)
              \o (IF input.well_formed THEN <<"}">> ELSE <<>>)

\* str.startswith
StartsWith(text, prefix) ==
    Len(text) >= Len(prefix) /\ SubSeq(text, 1, Len(prefix)) = prefix

\* json.loads on the input, single quotes replaced first or not: the keys of
\* the object, or JSONDecodeError.
JsonLoads(input, replace_quotes) ==
    IF input.keys # <<>> /\ input.well_formed /\ (input.quote = DQ \/ replace_quotes)
    THEN Ret(Range(input.keys)) ELSE Raise("JSONDecodeError")

\* The unwrapping every function repeats: when the input looks like JSON to
\* it, loads as an object and has the key, the value of the key; the input
\* otherwise.
Unwrap(input, looks_like_json, replace_quotes, key) ==
    LET data == JsonLoads(input, replace_quotes)
    IN IF looks_like_json /\ ~data.raised /\ key \in data.value
       THEN [extracted |-> TRUE, text |-> input.payload]
       ELSE [extracted |-> FALSE, text |-> Render(input)]

\* parse_json_input(input_value, expected_key), on a string
ParseJsonInput(input, expected_key) ==
    LET u == Unwrap(input,
                    StartsWith(Render(input), <<"{", DQ>>)
                      \/ StartsWith(Render(input), <<"{", SQ>>),
                    TRUE, expected_key)
    IN IF u.extracted THEN u ELSE [u EXCEPT !.text = Strip(u.text)]

\* calculate: lines 175-187, then the validation and the evaluation
CalculateCall(input) ==
    LET text == Render(input)
        u == Unwrap(input,
                    StartsWith(text, <<"{", DQ, "expression", DQ, ":">>)
                      \/ StartsWith(text, <<"{", SQ, "expression", SQ>>),
                    TRUE, "expression")
    IN [message |-> CalculateText([json |-> u.extracted, text |-> u.text]).message,
        used |-> u.text]

\* What make_digidates_request can hand back: None; the body of a JSON
\* answer, which is an object with "result", an object without it (as in
\* {"leapyear": false}) or a bare value; or {"result": ...} around a body
\* that came with another content type.  says: what the service answered.
DigidatesValues ==
    {[type |-> "int", value |-> v] : v \in {0, 1, 6, 7}}
      \cup {[type |-> "bool", value |-> v] : v \in {0, 1}}
      \cup {[type |-> "str", value |-> 1]}

DigidatesAnswers ==
    {[kind |-> "None", result |-> [type |-> "NoneType", value |-> 0], says |-> FALSE]}
      \cup {[kind |-> "object", result |-> [type |-> "dict", value |-> 1], says |-> b] :
               b \in BOOLEAN}
      \cup {[kind |-> k, result |-> v,
              says |-> IF v.type = "str" THEN b ELSE v.value # 0] :
               k \in {"result", "bare"}, v \in DigidatesValues, b \in BOOLEAN}

\* check_leap_year, validate_date (same code, other words) and get_weekday
DigidatesCall(tool, input, answer) ==
    LET u == Unwrap(input, StartsWith(Render(input), <<"{">>), FALSE, ExpectedField(tool))
        v == answer.result
        weekdays == <<"Sunday", "Monday", "Tuesday", "Wednesday", "Thursday",
                      "Friday", "Saturday">>
    IN [used |-> u.text,
        message |->
          IF answer.kind = "None" THEN <<"Error: Unable to", tool>>
          ELSE IF tool = "check_leap_year"
          THEN <<"Year", IF v.value # 0 THEN "is a leap year" ELSE "is not a leap year">>
          ELSE IF tool = "validate_date"
          THEN <<"Date", IF v.value # 0 THEN "is valid" ELSE "is invalid">>
          ELSE IF v.type \in {"int", "bool"} /\ 0 <= v.value /\ v.value <= 6
          THEN <<"Date", "falls on a", weekdays[v.value + 1]>>
          ELSE <<"Weekday number for", v.type>>]

\* A tool that puts the number of lines logged so far into its answer.
tool_output_counting_calls(call, log) ==
    [used |-> <<>>, message |-> <<call.tool, "call">> \o [i \in 1 .. Len(log) |-> "again"]]

\* What a call returns.  The log is the only thing calls leave behind, and
\* no function reads it.
ToolOutput(call, log) ==
    IF call.tool = "calculate" THEN CalculateCall(call.input)
    ELSE IF call.tool = "parse_json_input"
    THEN [used |-> ParseJsonInput(call.input, "date").text, message |-> <<>>]
    ELSE DigidatesCall(call.tool, call.input, call.answer)

ReadOnlyCalls ==
    UNION {{[tool |-> t, input |-> i, answer |-> a] :
              i \in ToolInputs(t),
              a \in IF t \in {"calculate", "parse_json_input"}
                    THEN {[kind |-> "None", result |-> [type |-> "NoneType", value |-> 0],
                           says |-> FALSE]}
                    ELSE DigidatesAnswers} : t \in ReadOnlyTools}

\* t_call is the call that is repeated, t_result the outputs it gave so far,
\* t_state the log.
ToolsInit ==
    /\ t_pc = "called"
    /\ t_call \in ReadOnlyCalls
    /\ t_state = <<>>
    /\ t_result = <<>>

\* logger.info(...) at the top of each function, then the function
CallTool(tool) ==
    /\ t_pc = "called"
    /\ t_call.tool = tool
    /\ Len(t_state) < MaxCalls
    /\ t_state' = Append(t_state, tool)
    /\ t_result' = Append(t_result, ToolOutput(t_call, t_state))
    /\ t_pc' = IF Len(t_result') = 2 THEN "returned" ELSE "called"
    /\ UNCHANGED t_call

\* A call of any tool in between: it logs, and its output goes elsewhere.
CallOtherTool ==
    /\ t_pc = "called"
    /\ Len(t_state) < MaxCalls - 1
    /\ \E other \in ReadOnlyTools \ {t_call.tool} : t_state' = Append(t_state, other)
    /\ UNCHANGED <<t_pc, t_call, t_result>>

InitTools == LoopIdle /\ DelegationIdle /\ InvokeInit /\ CalcIdle /\ ToolsInit

NextTools ==
    \/ CallTool("calculate") /\ UNCHANGED <<loopVars, delegVars, invokeVars, calcVars>>
    \/ CallTool("check_leap_year") /\ UNCHANGED <<loopVars, delegVars, invokeVars, calcVars>>
    \/ CallTool("validate_date") /\ UNCHANGED <<loopVars, delegVars, invokeVars, calcVars>>
    \/ CallTool("get_weekday") /\ UNCHANGED <<loopVars, delegVars, invokeVars, calcVars>>
    \/ CallTool("parse_json_input") /\ UNCHANGED <<loopVars, delegVars, invokeVars, calcVars>>
    \/ CallOtherTool /\ UNCHANGED <<loopVars, delegVars, invokeVars, calcVars>>

SpecTools == InitTools /\ [][NextTools]_vars

C26_InputsNormalisedAlike ==
    \A i \in DOMAIN t_result :
        t_result[i].used =
            IF /\ t_call.input.keys # <<>>
               /\ t_call.input.well_formed
               /\ t_call.input.quote = DQ
               /\ ExpectedField(t_call.tool) \in Range(t_call.input.keys)
            THEN t_call.input.payload
            ELSE Render(t_call.input)

(***************************************************************************)
(* config.py and create_llm_from_config (agent_factory.py): the settings   *)
(* read from the environment, and the completion client built from them    *)
(* and from settings/model_config.json.                                    *)
(***************************************************************************)
EnvNames ==
    {"LANGFUSE_PUBLIC_KEY", "LANGFUSE_SECRET_KEY", "LANGFUSE_HOST", "MISTRAL_API_KEY",
     "MISTRAL_MODEL", "LOG_LEVEL"}

\* The environments of a process: each variable unset (None) or set.
Environments ==
    {env \in [EnvNames -> {None, "", "set"}] :
        \A n \in EnvNames \ {"MISTRAL_API_KEY"} : env[n] # ""}

\* The fields class Settings declares, with the variable each is read from
\* and its default (None: required).
SettingsFields ==
    {<<"langfuse_public_key", "LANGFUSE_PUBLIC_KEY", None>>,
     <<"langfuse_secret_key", "LANGFUSE_SECRET_KEY", None>>,
     <<"langfuse_host", "LANGFUSE_HOST", "https://cloud.langfuse.com">>,
     <<"mistral_api_key", "MISTRAL_API_KEY", None>>,
     <<"log_level", "LOG_LEVEL", "INFO">>}

\* Settings(): a value per declared field, from the environment or the
\* default; ValidationError when a required one is unset.  Variables that no
\* field names are not read.
Settings(env) ==
    IF \E f \in SettingsFields : f[3] = None /\ env[f[2]] = None
    THEN Raise("ValidationError")
    ELSE Ret([name \in {f[1] : f \in SettingsFields} |->
                LET f == CHOOSE g \in SettingsFields : g[1] = name
                IN IF env[f[2]] # None THEN env[f[2]] ELSE f[3]])

\* get_global_settings(): get_settings, then validate_required_settings
GetGlobalSettings(env) ==
    LET s == Settings(env)
    IN IF s.raised THEN Raise("ValueError")
       ELSE IF \E n \in {"langfuse_public_key", "langfuse_secret_key", "mistral_api_key"} :
                 s.value[n] = ""
       THEN Raise("ValueError")
       ELSE s

\* settings.<name>
GetAttr(settings, name) ==
    IF name \in DOMAIN settings THEN Ret(settings[name]) ELSE Raise("AttributeError")

ModelConfigKeys == {"temperature", "max_tokens", "timeout"}

\* create_llm_from_config(): the ChatMistralAI built, or the RuntimeError
\* every exception inside is turned into.
CreateLlmFromConfigResult(env, model_config) ==
    LET settings == GetGlobalSettings(env)
    IN IF ~model_config.exists THEN Raise("RuntimeError")
       ELSE IF settings.raised THEN Raise("RuntimeError")
       ELSE IF ModelConfigKeys \ model_config.keys # {} THEN Raise("RuntimeError")
       ELSE LET model == GetAttr(settings.value, "mistral_model")
            IN IF model.raised THEN Raise("RuntimeError")
               ELSE Ret([model |-> model.value, config |-> model_config.keys])

\* model_config.json: missing, or an object with some of the keys.
ConfigInit ==
    /\ t_pc = "called"
    /\ \E env \in Environments, keys \in SUBSET ModelConfigKeys, exists \in BOOLEAN :
         /\ ~exists => keys = {}
         /\ t_call = [function |-> "create_llm_from_config", env |-> env,
                      model_config |-> [exists |-> exists, keys |-> keys]]
    /\ t_state = <<>>
    /\ t_result = <<>>

CreateLlmFromConfig ==
    /\ t_pc = "called"
    /\ t_call.function = "create_llm_from_config"
    /\ t_result' = CreateLlmFromConfigResult(t_call.env, t_call.model_config)
    /\ t_state' = GetGlobalSettings(t_call.env)
    /\ t_pc' = "returned"
    /\ UNCHANGED t_call

InitConfig == LoopIdle /\ DelegationIdle /\ InvokeInit /\ CalcIdle /\ ConfigInit

NextConfig == CreateLlmFromConfig /\ UNCHANGED <<loopVars, delegVars, invokeVars, calcVars>>

SpecConfig == InitConfig /\ [][NextConfig]_vars

\* C27: with the required variables set and a model configuration holding
\* temperature, max_tokens and timeout, create_llm_from_config returns a
\* client whose model is settings.mistral_model: the value of MISTRAL_MODEL,
\* or "mistral-medium-latest" when it is unset.
C27_LlmBuiltWithMistralModel ==
    (/\ t_pc = "returned"
     /\ t_call.function = "create_llm_from_config"
     /\ \A n \in {"LANGFUSE_PUBLIC_KEY", "LANGFUSE_SECRET_KEY", "MISTRAL_API_KEY"} :
          t_call.env[n] = "set"
     /\ t_call.model_config = [exists |-> TRUE, keys |-> ModelConfigKeys])
      => /\ ~t_result.raised
         /\ t_result.value.model =
              IF t_call.env["MISTRAL_MODEL"] # None THEN t_call.env["MISTRAL_MODEL"]
              ELSE "mistral-medium-latest"

(***************************************************************************)
(* prompt_manager.py: one PromptManager and one prompt file.  The file is  *)
(* written, replaced and deleted by whoever edits the prompts; its         *)
(* modification time is the file system's clock at the write, or an older  *)
(* time when a copy that keeps its timestamp is put in its place.          *)
(***************************************************************************)
MaxTime == 2

PromptTexts == {<<"v1">>, <<SP, "v2", SP>>, <<"v3", SP>>}

NoFile == [exists |-> FALSE, content |-> <<>>, mtime |-> 0]
NoCache == [present |-> FALSE, content |-> <<>>, mtime |-> 0]

\* PromptManager(prompts_dir): an empty cache; the file is there already.
PromptInit ==
    /\ t_pc = "idle"
    /\ t_call = "main_orchestrator_system"
    /\ \E text \in PromptTexts :
         t_state = [clock |-> 0, cache |-> NoCache,
                    file |-> [exists |-> TRUE, content |-> text, mtime |-> 0]]
    /\ t_result = Ret(<<>>)

\* name in self._cache and current_mtime <= cached_mtime
CacheIsValid(cache, current_mtime) ==
    cache.present /\ current_mtime <= cache.mtime

\* get_prompt(name), with or without the .md extension
GetPrompt ==
    /\ t_pc \in {"idle", "cleaned"}
    /\ \E name \in {"main_orchestrator_system", "main_orchestrator_system.md"} :
         t_call' = name
    /\ t_pc' = "returned"
    /\ IF ~t_state.file.exists
       THEN t_result' = Raise("FileNotFoundError") /\ UNCHANGED t_state
       ELSE IF CacheIsValid(t_state.cache, t_state.file.mtime)
       THEN t_result' = Ret(t_state.cache.content) /\ UNCHANGED t_state
       ELSE /\ t_result' = Ret(Strip(t_state.file.content))
            /\ t_state' = [t_state EXCEPT !.cache =
                             [present |-> TRUE, content |-> Strip(t_state.file.content),
                              mtime |-> t_state.file.mtime]]

\* invalidate_cache(name) / invalidate_cache()
InvalidateCache ==
    /\ t_state.cache.present
    /\ t_state' = [t_state EXCEPT !.cache = NoCache]
    /\ t_pc' = "idle"
    /\ UNCHANGED <<t_call, t_result>>

\* The file system's clock moves on.
Tick ==
    /\ t_state.clock < MaxTime
    /\ t_state' = [t_state EXCEPT !.clock = @ + 1]
    /\ UNCHANGED <<t_pc, t_call, t_result>>

\* The prompt file is written with another content.
WriteFile ==
    /\ \E text \in PromptTexts \ {t_state.file.content} :
         t_state' = [t_state EXCEPT !.file =
                        [exists |-> TRUE, content |-> text, mtime |-> t_state.clock]]
    /\ t_pc' = "idle"
    /\ UNCHANGED <<t_call, t_result>>

\* Another version is put in place with the timestamp it had (a restored
\* backup, a checkout that keeps times).
RestoreFile ==
    /\ \E text \in PromptTexts \ {t_state.file.content}, mtime \in 0 .. t_state.clock :
         t_state' = [t_state EXCEPT !.file =
                        [exists |-> TRUE, content |-> text, mtime |-> mtime]]
    /\ t_pc' = "idle"
    /\ UNCHANGED <<t_call, t_result>>

DeleteFile ==
    /\ t_state.file.exists
    /\ t_state' = [t_state EXCEPT !.file = NoFile]
    /\ t_pc' = "idle"
    /\ UNCHANGED <<t_call, t_result>>

\* cleanup_cache dropping every entry, whether its file is there or not
cleanup_cache_clearing_all ==
    /\ t_state' = [t_state EXCEPT !.cache = NoCache]
    /\ t_pc' = "cleaned"
    /\ UNCHANGED <<t_call, t_result>>

\* cleanup_cache(): the entries whose file os.path.exists no longer finds are
\* deleted from the cache; the others are not touched.
CleanupCache ==
    /\ t_state' = [t_state EXCEPT !.cache =
                     IF t_state.cache.present /\ ~t_state.file.exists THEN NoCache ELSE @]
    /\ t_pc' = "cleaned"
    /\ UNCHANGED <<t_call, t_result>>

InitPrompt == LoopIdle /\ DelegationIdle /\ InvokeInit /\ CalcIdle /\ PromptInit

NextPrompt ==
    \/ GetPrompt /\ UNCHANGED <<loopVars, delegVars, invokeVars, calcVars>>
    \/ InvalidateCache /\ UNCHANGED <<loopVars, delegVars, invokeVars, calcVars>>
    \/ Tick /\ UNCHANGED <<loopVars, delegVars, invokeVars, calcVars>>
    \/ WriteFile /\ UNCHANGED <<loopVars, delegVars, invokeVars, calcVars>>
    \/ RestoreFile /\ UNCHANGED <<loopVars, delegVars, invokeVars, calcVars>>
    \/ DeleteFile /\ UNCHANGED <<loopVars, delegVars, invokeVars, calcVars>>
    \/ CleanupCache /\ UNCHANGED <<loopVars, delegVars, invokeVars, calcVars>>

SpecPrompt == InitPrompt /\ [][NextPrompt]_vars

\* C28: a get_prompt call returns the stripped content the file has at the
\* call, whatever was cached before the file changed.
C28_ChangedPromptIsReloaded ==
    (t_pc = "returned" /\ t_state.file.exists)
      => t_result = Ret(Strip(t_state.file.content))

(***************************************************************************)
(* Further claims about one loop run (specification Spec)                  *)
(***************************************************************************)
\* C29: a tool is invoked only while a completion is being acted on, one
\* invocation at a time, and the invocation uses the completion up: the next
\* one needs another completion, also when the turn held several Action
\* markers.
C29_OneToolPerTurn ==
    [][tool_calls' # tool_calls
         => /\ tool_calls' = tool_calls + 1
            /\ pc = "act"
            /\ pc' # "act"
            /\ llm_output' = <<>>
            /\ llm_calls' = llm_calls
            /\ tool_calls' <= llm_calls]_vars

\* A turn with two Action markers was acted on: one tool ran, and the second
\* action was handed to it as part of its input.
C29_Witness ==
    /\ kind = "math"
    /\ pc = "llm"
    /\ llm_calls = 1
    /\ tool_calls = 1
    /\ n_steps = 1
    /\ last_step.tool = "calculate"
    /\ last_step.input = <<ACT, "calculate", INP>>

C31_BudgetExhaustionIsNormalEnd ==
    [][/\ (iterations' = iterations + 1
             /\ (iterations' >= max_iterations(kind) \/ budget_elapsed))
            => /\ pc' = "done"
               /\ terminated' \in {"max_iterations", "max_time"}
               /\ final_output' = <<StoppedMessage>>
       /\ (last_step' # last_step /\ last_step'.obs = StoppedMessage)
            => /\ kind = "orchestrator"
               /\ last_step'.tool \in get_operator_agents
               /\ ~last_step'.failed
               /\ terminated' # "raised"
               /\ tool_calls' = tool_calls + 1
               /\ n_steps' = n_steps + 1]_vars

\* The orchestrator goes on after an operator handed back its stop message.
C31_Witness ==
    /\ kind = "orchestrator"
    /\ pc = "llm"
    /\ terminated = "running"
    /\ last_step.tool = "math_operator"
    /\ last_step.obs = StoppedMessage
    /\ tool_calls = 1

\* C32: whatever shape the date service's answer has (an object with
\* "result", an object without it, a bare value), check_leap_year says
\* "is not a leap year" when the service answered no and "is a leap year"
\* when it answered yes.
C32_LeapYearAnswerIsReported ==
    (t_call.tool = "check_leap_year" /\ t_call.answer.kind # "None")
      => \A i \in DOMAIN t_result :
            t_result[i].message =
                <<"Year", IF t_call.answer.says THEN "is a leap year"
                          ELSE "is not a leap year">>

(***************************************************************************)
(* The transcript of one loop run: AgentExecutor keeps intermediate_steps, *)
(* a list of (action, observation) pairs, and renders it into the          *)
(* {agent_scratchpad} slot of the prompt before every completion.          *)
(***************************************************************************)
MaxTranscript == 3

\* What a completion can be parsed to: an action on a tool, or the
\* _Exception action of handle_parsing_errors=True.
TranscriptActions ==
    {[tool |-> "calculate", log |-> "Action: calculate"],
     [tool |-> "math_operator", log |-> "Action: math_operator"],
     [tool |-> "_Exception", log |-> "Could not parse LLM output"]}

TranscriptObservations == {"4", "Error in operator"}

\* format_log_to_str keeping only the latest pair
format_last_step_only(steps) ==
    IF steps = <<>> THEN <<>>
    ELSE <<steps[Len(steps)].action.log, "Observation:", steps[Len(steps)].observation,
           "Thought:">>

\* "Thought:{agent_scratchpad}": for every pair of intermediate_steps, in the
\* list's order, the action's log, "\nObservation: " + observation and
\* "\nThought: ".
RECURSIVE format_log_to_str(_)
format_log_to_str(steps) ==
    IF steps = <<>> THEN <<>>
    ELSE format_log_to_str(SubSeq(steps, 1, Len(steps) - 1))
           \o <<steps[Len(steps)].action.log, "Observation:",
                steps[Len(steps)].observation, "Thought:">>

\* AgentExecutor._call: intermediate_steps = [], iterations = 0
TranscriptInit ==
    /\ t_pc = "plan"
    /\ t_call = [iteration |-> 0, scratchpad |-> <<>>]
    /\ t_state = [intermediate_steps |-> <<>>, pending |-> None]
    /\ t_result = Ret(<<>>)

\* agent.plan(intermediate_steps): the prompt is rendered from the list as it
\* is now and the completion is parsed to a finish or to an action.
PlanTurn ==
    /\ t_pc = "plan"
    /\ t_call' = [iteration |-> Len(t_state.intermediate_steps) + 1,
                  scratchpad |-> format_log_to_str(t_state.intermediate_steps)]
    /\ \/ /\ t_pc' = "done"
          /\ t_result' = Ret(<<"Final Answer">>)
          /\ UNCHANGED t_state
       \/ /\ \E a \in TranscriptActions :
               t_state' = [t_state EXCEPT !.pending = a]
          /\ t_pc' = "act"
          /\ UNCHANGED t_result

\* The action is performed and intermediate_steps.extend([(action,
\* observation)]); the loop goes on while _should_continue.
TakeStep ==
    /\ t_pc = "act"
    /\ \E obs \in TranscriptObservations :
         t_state' = [intermediate_steps |->
                         Append(t_state.intermediate_steps,
                                [action |-> t_state.pending, observation |-> obs]),
                     pending |-> None]
    /\ IF Len(t_state.intermediate_steps) + 1 >= MaxTranscript
       THEN t_pc' = "done" /\ t_result' = Ret(<<StoppedMessage>>)
       ELSE t_pc' = "plan" /\ UNCHANGED t_result
    /\ UNCHANGED t_call

InitTranscript == LoopIdle /\ DelegationIdle /\ InvokeInit /\ CalcIdle /\ TranscriptInit

NextTranscript ==
    \/ PlanTurn /\ UNCHANGED <<loopVars, delegVars, invokeVars, calcVars>>
    \/ TakeStep /\ UNCHANGED <<loopVars, delegVars, invokeVars, calcVars>>

SpecTranscript == InitTranscript /\ [][NextTranscript]_vars

\* C33: the transcript of a run only grows at its end, one pair at a time,
\* and no pair in it is removed, moved or rewritten; the prompt of iteration
\* N+1 holds the action and the observation of iterations 1..N, in order.
C33_TranscriptAppendOnly ==
    [][/\ Len(t_state'.intermediate_steps) \in
             {Len(t_state.intermediate_steps), Len(t_state.intermediate_steps) + 1}
       /\ \A i \in DOMAIN t_state.intermediate_steps :
             t_state'.intermediate_steps[i] = t_state.intermediate_steps[i]
       /\ (t_call' # t_call) =>
             /\ t_call'.iteration = Len(t_state.intermediate_steps) + 1
             /\ Len(t_call'.scratchpad) = 4 * Len(t_state.intermediate_steps)
             /\ \A i \in DOMAIN t_state.intermediate_steps :
                   /\ t_call'.scratchpad[4 * i - 3] = t_state.intermediate_steps[i].action.log
                   /\ t_call'.scratchpad[4 * i - 1] = t_state.intermediate_steps[i].observation]_vars

\* The third completion of a run is asked for with two different pairs in
\* the prompt.
C33_Witness ==
    /\ t_pc = "act"
    /\ t_call.iteration = 3
    /\ Len(t_state.intermediate_steps) = 2
    /\ t_state.intermediate_steps[1] # t_state.intermediate_steps[2]
    /\ Len(t_call.scratchpad) = 8

(***************************************************************************)
(* tools/factory.py, create_traced_tool: one call of the wrapper around a  *)
(* function func.  What func does with its arguments is its own business:  *)
(* it returns a value or raises.  The parent trace is whatever             *)
(* _current_trace holds at the call; a span call can fail.                 *)
(***************************************************************************)
\* The values func returns, as Python writes them (some of them falsy), and
\* the exceptions it raises
FuncOutcomes ==
    {Ret(v) : v \in {"'4'", "''", "0", "None"}}
      \cup {Raise(e) : e \in {"ValueError('bad input')", "KeyError('x')"}}

TracedInit ==
    /\ t_pc = "called"
    /\ \E outcome \in FuncOutcomes, parent \in {"None", "trace"}, args \in {"2+2", ""} :
         t_call = [func |-> outcome, parent_trace |-> parent, args |-> args]
    /\ t_state = [executions |-> 0, tool_span |-> "None", outcome |-> Ret("unset"),
                  logged |-> {}]
    /\ t_result = Ret("unset")

\* parent_trace = _current_trace; if parent_trace: try: tool_span =
\* parent_trace.span(...) except Exception: logger.error(...)
WrapperEnter ==
    /\ t_pc = "called"
    /\ IF t_call.parent_trace = "None"
       THEN t_state' = [t_state EXCEPT !.logged = @ \cup {"no parent trace"}]
       ELSE \E ok \in BOOLEAN :
              t_state' = IF ok THEN [t_state EXCEPT !.tool_span = "span"]
                         ELSE [t_state EXCEPT !.logged = @ \cup {"span creation failed"}]
    /\ t_pc' = "execute"
    /\ UNCHANGED <<t_call, t_result>>

\* result = func(*args, **kwargs)
ExecuteFunc ==
    /\ t_pc = "execute"
    /\ t_state' = [t_state EXCEPT !.executions = @ + 1, !.outcome = t_call.func]
    /\ t_pc' = "update"
    /\ UNCHANGED <<t_call, t_result>>

\* The wrapper with the span updates outside a try of their own: an exception
\* of tool_span.update on the way out reaches the except clause and is what
\* the caller gets.
WrapperLeaveUnguarded ==
    /\ t_pc = "update"
    /\ \E ok \in BOOLEAN :
         IF t_state.tool_span = "None" \/ ok
         THEN t_result' = t_state.outcome /\ UNCHANGED t_state
         ELSE /\ t_result' = Raise("span update failed")
              /\ t_state' = [t_state EXCEPT !.logged = @ \cup {"span update failed"}]
    /\ t_pc' = "returned"
    /\ UNCHANGED t_call

\* if tool_span: try: tool_span.update(output=result, ...) except Exception:
\* logger.error(...); return result -- and in the except clause: if tool_span:
\* try: tool_span.update(output={"error": ...}) except Exception: ...; raise e
WrapperLeave ==
    /\ t_pc = "update"
    /\ \E ok \in BOOLEAN :
         IF t_state.tool_span = "None" \/ ok
         THEN UNCHANGED t_state
         ELSE t_state' = [t_state EXCEPT !.logged = @ \cup {"span update failed"}]
    /\ t_result' = t_state.outcome
    /\ t_pc' = "returned"
    /\ UNCHANGED t_call

InitTraced == LoopIdle /\ DelegationIdle /\ InvokeInit /\ CalcIdle /\ TracedInit

NextTraced ==
    \/ WrapperEnter /\ UNCHANGED <<loopVars, delegVars, invokeVars, calcVars>>
    \/ ExecuteFunc /\ UNCHANGED <<loopVars, delegVars, invokeVars, calcVars>>
    \/ WrapperLeave /\ UNCHANGED <<loopVars, delegVars, invokeVars, calcVars>>

SpecTraced == InitTraced /\ [][NextTraced]_vars

\* C34: a call of a traced tool runs the wrapped function once and hands its
\* outcome on as it is -- the value it returned, or the exception it raised --
\* whether or not there is a parent trace and whether or not creating or
\* updating the tool span failed.
C34_TracedToolTransparent ==
    /\ t_state.executions <= 1
    /\ t_pc = "returned" => /\ t_state.executions = 1
                            /\ t_result = t_call.func

\* The function raised, the span had been created, and its update failed.
C34_Witness ==
    /\ t_pc = "returned"
    /\ t_call.func.raised
    /\ t_state.tool_span = "span"
    /\ "span update failed" \in t_state.logged
    /\ t_result = t_call.func

(***************************************************************************)
(* Further claims about the prompt cache (specification SpecPrompt)        *)
(***************************************************************************)
\* C35: cleanup_cache leaves in the cache what was cached for a file that is
\* still there, content and mtime as they were, and nothing else; and a
\* get_prompt call for a file that is gone raises FileNotFoundError and
\* serves nothing from the cache, whatever was deleted or called before.
C35_CacheFollowsFiles ==
    [][/\ (t_pc' = "cleaned")
            => /\ t_state'.cache = IF t_state.file.exists THEN t_state.cache ELSE NoCache
               /\ t_state'.file = t_state.file
       /\ (t_pc # "returned" /\ t_pc' = "returned" /\ ~t_state.file.exists)
            => /\ t_result' = Raise("FileNotFoundError")
               /\ t_state' = t_state]_vars

\* The prompt was cached, its file was deleted and cleanup_cache has dropped
\* the entry.
C35_Witness ==
    /\ t_pc = "cleaned"
    /\ ~t_state.file.exists
    /\ ~t_state.cache.present
    /\ ~t_result.raised
    /\ t_result.value # <<>>

\* The prompt is cached, its file is still there, and cleanup_cache has kept
\* the entry.
C35_WitnessKept ==
    /\ t_pc = "cleaned"
    /\ t_state.file.exists
    /\ t_state.cache.present

(***************************************************************************)
(* Further claims about POST /invoke (specification SpecInvoke)            *)
(***************************************************************************)
\* C36: whenever no /invoke request is being served -- each one either has
\* not arrived or has been answered, its run returned or raised -- the
\* module-level _current_trace that traced tools read is None.
C36_TraceClearedAfterRequest ==
    (\A r \in Requests : r_pc[r] \in {"idle", "responded"}) => current_trace = None

(***************************************************************************)
(* config.py: the module-level _settings across the get_global_settings    *)
(* calls of one process.  The environment is the one the process was       *)
(* started with.                                                           *)
(***************************************************************************)
\* _settings: Optional[Settings] = None
SettingsInit ==
    /\ t_pc = "idle"
    /\ \E env \in Environments : t_call = [env |-> env, calls |-> 0]
    /\ t_state = [assigned |-> FALSE, settings |-> [n \in {} |-> ""]]
    /\ t_result = Raise("not called")

\* validate_required_settings(settings) returns without raising
PassesValidation(settings) ==
    \A n \in {"langfuse_public_key", "langfuse_secret_key", "mistral_api_key"} :
        n \in DOMAIN settings /\ settings[n] # ""

\* if _settings is None: _settings = get_settings();
\* validate_required_settings(_settings) -- the global is assigned before the
\* validation runs -- return _settings
GetGlobalSettingsCall ==
    /\ t_call.calls < MaxCalls
    /\ t_call' = [t_call EXCEPT !.calls = @ + 1]
    /\ t_pc' = "returned"
    /\ IF t_state.assigned
       THEN t_result' = Ret(t_state.settings) /\ UNCHANGED t_state
       ELSE /\ t_result' = GetGlobalSettings(t_call.env)
            /\ t_state' = LET s == Settings(t_call.env)
                          IN IF s.raised THEN t_state
                             ELSE [assigned |-> TRUE, settings |-> s.value]

InitSettings == LoopIdle /\ DelegationIdle /\ InvokeInit /\ CalcIdle /\ SettingsInit

NextSettings == GetGlobalSettingsCall /\ UNCHANGED <<loopVars, delegVars, invokeVars, calcVars>>

SpecSettings == InitSettings /\ [][NextSettings]_vars

\* C37: whatever get_global_settings returns, on a first call or on a later
\* one, is a Settings that validate_required_settings accepts; after a call
\* that failed the validation no call returns the settings that failed it.
C37_OnlyValidatedSettingsReturned ==
    (t_pc = "returned" /\ ~t_result.raised) => PassesValidation(t_result.value)

(***************************************************************************)
(* The completion calls of one /invoke request: the orchestrator's loop,   *)
(* its delegations to math_operator, and the operator loop inside each     *)
(* delegation.  Every completion call and every tool call returns; what    *)
(* can fail is the tracing call that reports the operator's output.        *)
(***************************************************************************)
\* The iteration of the orchestrator ends: iterations += 1, and the loop goes
\* on while iterations < max_iterations.
AfterOrchestratorStep(state) ==
    [state EXCEPT !.iterations = @ + 1,
                  !.pc = IF state.iterations + 1 < OrchestratorMaxIterations
                         THEN "orchestrator" ELSE "responded"]

BudgetInit ==
    /\ t_pc = "received"
    /\ t_call \in Queries
    /\ t_state = [pc |-> "received", iterations |-> 0, orchestrator_calls |-> 0,
                  operator_iterations |-> 0, delegation_calls |-> 0, total_calls |-> 0]
    /\ t_result = Ret(None)

\* invoke_agent: app_state["agent_executor"].invoke(agent_input, ...)
InvokeReceived ==
    /\ t_state.pc = "received"
    /\ t_state' = [t_state EXCEPT !.pc = "orchestrator"]
    /\ UNCHANGED <<t_pc, t_call, t_result>>

\* One iteration of the orchestrator's executor: a completion, then the final
\* answer, or the call of math_operator, or a step that delegates nothing (an
\* unknown tool, a completion that cannot be parsed).
OrchestratorCompletion ==
    /\ t_state.pc = "orchestrator"
    /\ \E turn \in {"finish", "delegate", "other"} :
         LET called == [t_state EXCEPT !.orchestrator_calls = @ + 1, !.total_calls = @ + 1]
         IN t_state' =
              IF turn = "finish" THEN [called EXCEPT !.pc = "responded"]
              ELSE IF turn = "delegate"
              THEN [called EXCEPT !.pc = "traced_run", !.operator_iterations = 0,
                                  !.delegation_calls = 0]
              ELSE AfterOrchestratorStep(called)
    /\ UNCHANGED <<t_pc, t_call, t_result>>

\* One iteration of the operator's executor, in the traced run or in the
\* fallback run: a completion, then the final answer or a tool step; the run
\* ends with the answer or when iterations reaches max_iterations.
OperatorCompletion ==
    /\ t_state.pc \in {"traced_run", "fallback_run"}
    /\ \E turn \in {"finish", "step"} :
         LET called == [t_state EXCEPT !.delegation_calls = @ + 1, !.total_calls = @ + 1]
             ends == turn = "finish"
                       \/ t_state.operator_iterations + 1 >= OperatorMaxIterations
         IN t_state' =
              IF ~ends THEN [called EXCEPT !.operator_iterations = @ + 1]
              ELSE IF t_state.pc = "traced_run"
              THEN [called EXCEPT !.pc = "span_update"]
              ELSE AfterOrchestratorStep(called)
    /\ UNCHANGED <<t_pc, t_call, t_result>>

\* math_operator after the traced run: operator_span.update(output=...) and
\* return output; an exception of the update is caught by 'except Exception'
\* and the operator is built and run again without tracing.
UpdateOperatorSpan ==
    /\ t_state.pc = "span_update"
    /\ \E ok \in BOOLEAN :
         t_state' = IF ok THEN AfterOrchestratorStep(t_state)
                    ELSE [t_state EXCEPT !.pc = "fallback_run", !.operator_iterations = 0]
    /\ UNCHANGED <<t_pc, t_call, t_result>>

\* invoke_agent after the run: the InvokeResponse is returned.
InvokeResponds ==
    /\ t_state.pc = "responded"
    /\ t_pc = "received"
    /\ t_pc' = "responded"
    /\ t_result' = Ret("output of the run")
    /\ UNCHANGED <<t_call, t_state>>

InitBudget == LoopIdle /\ DelegationIdle /\ InvokeInit /\ CalcIdle /\ BudgetInit

NextBudget ==
    \/ InvokeReceived /\ UNCHANGED <<loopVars, delegVars, invokeVars, calcVars>>
    \/ OrchestratorCompletion /\ UNCHANGED <<loopVars, delegVars, invokeVars, calcVars>>
    \/ OperatorCompletion /\ UNCHANGED <<loopVars, delegVars, invokeVars, calcVars>>
    \/ UpdateOperatorSpan /\ UNCHANGED <<loopVars, delegVars, invokeVars, calcVars>>
    \/ InvokeResponds /\ UNCHANGED <<loopVars, delegVars, invokeVars, calcVars>>

SpecBudget == InitBudget /\ [][NextBudget]_vars

\* The event loop and the worker thread keep running: a step that can be
\* taken is taken.
SpecBudgetFair == SpecBudget /\ WF_vars(NextBudget)

\* C38: a request whose completion and tool calls all return uses at most 10
\* completion calls in the orchestrator's loop and at most 5 in each
\* delegation, at most 60 altogether.
C38_CompletionCallsBounded ==
    /\ t_state.orchestrator_calls <= OrchestratorMaxIterations
    /\ t_state.delegation_calls <= OperatorMaxIterations
    /\ t_state.total_calls
         <= OrchestratorMaxIterations + OrchestratorMaxIterations * OperatorMaxIterations

\* The termination half of C38: every request is answered.
EveryRequestAnswered == <>(t_pc = "responded")

\* What the code does keep to: 10 completion calls of the orchestrator, and 5
\* for each of the at most two runs of a delegation.
CompletionCallsOfCode ==
    /\ t_state.orchestrator_calls <= OrchestratorMaxIterations
    /\ t_state.delegation_calls <= 2 * OperatorMaxIterations
    /\ t_state.total_calls
         <= OrchestratorMaxIterations + OrchestratorMaxIterations * 2 * OperatorMaxIterations

(***************************************************************************)
(* GET /health: health_check reads the executor of app_state and reports   *)
(* what get_agent_info says about it.                                      *)
(***************************************************************************)
\* The executors the application may hold: None before startup has finished,
\* or an executor with its tools and its callbacks (None or a list).
HealthInit ==
    /\ t_pc = "called"
    /\ \E initialised, langfuse, readable \in BOOLEAN,
          tools \in SUBSET {"math_operator", "weather_operator", "datetime_operator"},
          callbacks \in {"None", "[]", "[cb]", "[cb, cb]"} :
         t_call = [initialised |-> initialised, langfuse_client |-> langfuse,
                   tools |-> tools, callbacks |-> callbacks, readable |-> readable]
    /\ t_state = [tools_read |-> 0]
    /\ t_result = [status |-> 0, tools_loaded |-> 0, langfuse_enabled |-> FALSE]

\* d.get(key, default)
DictGet(d, key, default) == IF key \in DOMAIN d THEN d[key] ELSE default

\* get_agent_info(executor): the dict with "operators_count" and the executor's
\* limits, or {"error": ...} when reading the executor raised.
get_agent_info(executor) ==
    IF ~executor.readable THEN [error |-> 1]
    ELSE [operators_count |-> Cardinality(executor.tools),
          max_iterations |-> OrchestratorMaxIterations,
          callbacks_count |-> IF executor.callbacks = "[cb]" THEN 1
                              ELSE IF executor.callbacks = "[cb, cb]" THEN 2 ELSE 0]

\* health_check(): 503 without an executor, else "healthy" with
\* tools_loaded = agent_info.get("tools_count", 0)
health_check ==
    /\ t_pc = "called"
    /\ t_pc' = "returned"
    /\ IF ~t_call.initialised
       THEN /\ t_result' = [status |-> 503, tools_loaded |-> 0, langfuse_enabled |-> FALSE]
            /\ UNCHANGED t_state
       ELSE LET agent_info == get_agent_info(t_call)
            IN /\ t_result' = [status |-> 200,
                               tools_loaded |-> DictGet(agent_info, "tools_count", 0),
                               langfuse_enabled |-> t_call.langfuse_client]
               /\ t_state' = [tools_read |-> DictGet(agent_info, "operators_count", 0)]
    /\ UNCHANGED t_call

InitHealth == LoopIdle /\ DelegationIdle /\ InvokeInit /\ CalcIdle /\ HealthInit

NextHealth == health_check /\ UNCHANGED <<loopVars, delegVars, invokeVars, calcVars>>

SpecHealth == InitHealth /\ [][NextHealth]_vars

\* C39: a /health answer that says "healthy" reports as tools_loaded the
\* number of operators registered with the executor, the operators_count of
\* get_agent_info.
C39_ToolsLoadedIsOperatorsCount ==
    (t_pc = "returned" /\ t_result.status = 200 /\ t_call.readable)
      => /\ t_result.tools_loaded = Cardinality(t_call.tools)
         /\ t_result.tools_loaded = get_agent_info(t_call).operators_count

====
